---- MODULE Spec2Model ----
(***************************************************************************)
(* dynamo2es-lambda: the handler that turns a DynamoDB stream event into   *)
(* one Elasticsearch bulk request (lib/handler.js, lib/utils.js).          *)
(*                                                                         *)
(* JavaScript values are modelled as records whose field names tell the    *)
(* type: [s |-> "k1"] is the string 'k1', [n |-> 3] the number 3,          *)
(* [undefined |-> TRUE] is undefined, [jsnull |-> TRUE] is null; a plain   *)
(* object is a function from its own property names to values.  An object *)
(* property that is absent is absent from the function's DOMAIN.           *)
(***************************************************************************)
EXTENDS Integers, Sequences, FiniteSets, TLC

VARIABLES
    options,      \* the options object the handler was constructed with
    event,        \* the event of this invocation
    pc,           \* position of the invocation's promise chain
    idx,          \* 1-based position of event.Records.reduce
    acc,          \* the reduce accumulator { actions, meta }
    cur,          \* locals of the record in flight (descriptor, doc, parsed)
    err,          \* the error travelling to a catch
    result,       \* the { result, meta } value handed to the second .then
    attempts,     \* bulk attempts promise-retry has made
    outcome,      \* how the invocation's promise settled
    calls,        \* every call made to a hook or to esclient.bulk, in order
    contrib,      \* per processed record: what it pushed to acc
    validations,  \* how often the options were validated
    other,        \* the state of a second invocation that is suspended, if any
    invocations   \* how often the handler was invoked

vars == <<options, event, pc, idx, acc, cur, err, result, attempts, outcome, calls,
          contrib, validations, invocations, other>>

----------------------------------------------------------------------------
(* Bounds *)

MaxRecords == 2
MaxRetries == 1
MaxOptions == 2
MaxInvocations == 2

----------------------------------------------------------------------------
(* JavaScript values *)

Undefined == [undefined |-> TRUE]
Null == [jsnull |-> TRUE]
Str(x) == [s |-> x]
Num(x) == [n |-> x]
EmptyObject == [f \in {} |-> Undefined]

IsNumber(v) == DOMAIN v = {"n"}
IsString(v) == DOMAIN v = {"s"}

\* ToBoolean of the values a document or a type can take
Truthy(v) ==
    /\ v # Undefined
    /\ v # Null
    /\ (IsString(v) => v.s # "")
    /\ (IsNumber(v) => v.n # 0)

Has(obj, key) == key \in DOMAIN obj

\* obj[key] of JavaScript: undefined when the property is absent
Prop(obj, key) == IF Has(obj, key) THEN obj[key] ELSE Undefined

\* Number.prototype.toString / String.prototype.toString on the values used
NumberToString(k) ==
    CASE k = 0 -> "0"
      [] k = 1 -> "1"
      [] k = 2 -> "2"
      [] k = 3 -> "3"
      [] k = 4 -> "4"
      [] k = -1 -> "-1"
      [] OTHER -> "NaN"

JsToString(v) ==
    IF IsString(v) THEN v.s
    ELSE IF IsNumber(v) THEN NumberToString(v.n)
    ELSE IF v = Null THEN "null"
    ELSE "undefined"

\* Number(string) on the decimal strings a stream attribute { N: ... } carries
ParseNumber(str) ==
    CASE str = "0" -> 0
      [] str = "1" -> 1
      [] str = "2" -> 2
      [] str = "3" -> 3
      [] str = "4" -> 4
      [] str = "-1" -> -1

----------------------------------------------------------------------------
(* Errors *)

\* slip: the details are the change description, not the record
UnknownEventNameError_Dynamodb(record) ==
    [name |-> "UnknownEventNameError", details |-> record.dynamodb]

UnknownEventNameError(record) ==
    [name |-> "UnknownEventNameError", details |-> record]

FieldNotFoundError(parsedRecord, path) ==
    [name |-> "FieldNotFoundError", path |-> path, details |-> parsedRecord]

ValidationError(label) ==
    [name |-> "ValidationError", label |-> label]

\* an Error thrown or rejected by user code or by the client
PlainError(msg) == [name |-> "Error", message |-> msg]

IsError(v) == Has(v, "name")

----------------------------------------------------------------------------
(* Stream records: the marshalled wire form and its decoding *)

\* DynamoDB.Converter.unmarshall of one attribute value { S: ... } | { N: ... }
UnmarshallAttr(a) ==
    IF Has(a, "S") THEN Str(a.S) ELSE Num(ParseNumber(a.N))

UnmarshallMap(m) == [f \in DOMAIN m |-> UnmarshallAttr(m[f])]

\* const parsedRecord = DynamoDB.Converter.unmarshall({ NewImage, OldImage, Keys })
Unmarshall(record) ==
    [ NewImage |-> UnmarshallMap(IF Has(record.dynamodb, "NewImage")
                                 THEN record.dynamodb.NewImage ELSE EmptyObject),
      OldImage |-> UnmarshallMap(IF Has(record.dynamodb, "OldImage")
                                 THEN record.dynamodb.OldImage ELSE EmptyObject),
      Keys     |-> UnmarshallMap(record.dynamodb.Keys) ]

\* property order of the objects of the model (Object.keys order)
FieldOrder == <<"id", "rk", "f", "v">>

ObjectKeys(obj) == SelectSeq(FieldOrder, LAMBDA f : f \in DOMAIN obj)

\* { ...a, ...b }
Spread(a, b) ==
    [k \in (DOMAIN a \cup DOMAIN b) |-> IF k \in DOMAIN b THEN b[k] ELSE a[k]]

----------------------------------------------------------------------------
(* lib/utils.js *)

\* a path option is a single path [path |-> p] or an array [paths |-> <<...>>]
IsArray(p) == Has(p, "paths")

PathList(p) == IF IsArray(p) THEN p.paths ELSE <<p.path>>

\* slip: acc || _.get(entry, path), a falsy value is passed over
ProbeMaps_SkipsFalsy(maps, path) ==
    LET hits == SelectSeq(maps, LAMBDA m : Truthy(Prop(m, path)))
    IN  IF hits = <<>> THEN Undefined ELSE Prop(Head(hits), path)

\* the reduce of getField: the first of Keys, NewImage, OldImage that has it
ProbeMaps(maps, path) ==
    LET hits == SelectSeq(maps, LAMBDA m : Prop(m, path) # Undefined)
    IN  IF hits = <<>> THEN Undefined ELSE Prop(Head(hits), path)

\* slip: the undefined value is returned instead of thrown on
GetField_ReturnsUndefined(parsedRecord, path) ==
    ProbeMaps(<<parsedRecord.Keys, parsedRecord.NewImage, parsedRecord.OldImage>>, path)

GetField(parsedRecord, path) ==
    LET value == ProbeMaps(<<parsedRecord.Keys, parsedRecord.NewImage,
                             parsedRecord.OldImage>>, path)
    IN  IF value = Undefined
        THEN FieldNotFoundError(parsedRecord, path)
        ELSE value

RECURSIVE Join(_, _)
\* Array.prototype.join over values
Join(values, separator) ==
    IF values = <<>> THEN ""
    ELSE IF Len(values) = 1 THEN JsToString(Head(values))
    ELSE JsToString(Head(values)) \o separator \o Join(Tail(values), separator)

\* slip: join() without the separator, which joins with ","
AssembleField_DefaultJoin(parsedRecord, paths, separator) ==
    IF IsArray(paths)
    THEN LET got == [k \in 1..Len(paths.paths) |->
                        GetField(parsedRecord, paths.paths[k])]
             bad == SelectSeq(got, IsError)
         IN  IF bad # <<>> THEN Head(bad) ELSE Str(Join(got, ","))
    ELSE GetField(parsedRecord, paths.path)

AssembleField(parsedRecord, paths, separator) ==
    IF IsArray(paths)
    THEN LET got == [k \in 1..Len(paths.paths) |->
                        GetField(parsedRecord, paths.paths[k])]
             bad == SelectSeq(got, IsError)
         IN  IF bad # <<>> THEN Head(bad) ELSE Str(Join(got, separator))
    ELSE GetField(parsedRecord, paths.path)

\* lodash pick(object, paths)
Pick(obj, paths) ==
    [f \in {g \in DOMAIN obj : \E k \in 1..Len(PathList(paths)) :
                                   PathList(paths)[k] = g} |-> obj[f]]

\* schemas.VERSION: a number that is at least 0
VersionIsValid(version) == IsNumber(version) /\ version.n >= 0

\* schemas.EVENT under { allowUnknown: true }
\* slip: Keys is not required
RecordIsValid_KeysOptional(record) ==
    /\ Has(record, "eventName")
    /\ Has(record, "dynamodb")

RecordIsValid(record) ==
    /\ Has(record, "eventName")
    /\ Has(record, "dynamodb")
    /\ Has(record.dynamodb, "Keys")

\* slip: allowUnknown left at false for the top level
EventIsValid_RejectsUnknown(ev) ==
    /\ DOMAIN ev = {"Records"}
    /\ \A k \in 1..Len(ev.Records) : RecordIsValid(ev.Records[k])

EventIsValid(ev) ==
    /\ Has(ev, "Records")
    /\ \A k \in 1..Len(ev.Records) : RecordIsValid(ev.Records[k])

----------------------------------------------------------------------------
(* lib/schemas.js: HANDLER_OPTIONS, as the clauses an options object violates *)

\* slip: .or(a, b), which lets both through
XorClauses_AtLeastOne(raw, a, b) ==
    IF ~Has(raw, a) /\ ~Has(raw, b)
    THEN {"must contain at least one of [" \o a \o ", " \o b \o "]"}
    ELSE {}

\* .xor(a, b): exactly one of the two
XorClauses(raw, a, b) ==
    IF Has(raw, a) /\ Has(raw, b)
    THEN {"conflict between exclusive peers [" \o a \o ", " \o b \o "]"}
    ELSE IF ~Has(raw, a) /\ ~Has(raw, b)
    THEN {"must contain at least one of [" \o a \o ", " \o b \o "]"}
    ELSE {}

\* slip: .oxor is left out of the schema
OxorClauses_Never(raw, a, b) == {}

\* .oxor(a, b): at most one of the two
OxorClauses(raw, a, b) ==
    IF Has(raw, a) /\ Has(raw, b)
    THEN {"conflict between optional exclusive peers [" \o a \o ", " \o b \o "]"}
    ELSE {}

\* slip: only the required peer is declared, not the forbidden one
IndexPrefixClauses_WithOnly(raw) ==
    IF Has(raw, "indexPrefix") /\ ~Has(raw, "indexField")
    THEN {"indexPrefix missing required peer indexField"} ELSE {}

\* .with('indexPrefix', 'indexField') and .without('index', 'indexPrefix')
IndexPrefixClauses(raw) ==
    (IF Has(raw, "indexPrefix") /\ ~Has(raw, "indexField")
     THEN {"indexPrefix missing required peer indexField"} ELSE {})
    \cup (IF Has(raw, "index") /\ Has(raw, "indexPrefix")
          THEN {"index conflict with forbidden peer indexPrefix"} ELSE {})

KnownOptions ==
    { "elasticsearch", "beforeHook", "afterHook", "recordErrorHook", "errorHook",
      "transformRecordHook", "separator", "idField", "idResolver", "index",
      "indexField", "indexPrefix", "type", "typeField", "parentField",
      "pickFields", "versionField", "versionResolver", "retryOptions" }

\* allowUnknown: false
UnknownKeyClauses(raw) == {k \o " is not allowed" : k \in DOMAIN raw \ KnownOptions}

\* child "bulk" fails because "body" is not allowed
BulkClauses(raw) ==
    IF /\ Has(raw, "elasticsearch")
       /\ Has(raw.elasticsearch, "bulk")
       /\ Has(raw.elasticsearch.bulk, "body")
    THEN {"elasticsearch.bulk.body is not allowed"}
    ELSE {}

\* every clause the options object violates
HANDLER_OPTIONS(raw) ==
    XorClauses(raw, "index", "indexField")
    \cup XorClauses(raw, "type", "typeField")
    \cup OxorClauses(raw, "idField", "idResolver")
    \cup OxorClauses(raw, "versionField", "versionResolver")
    \cup IndexPrefixClauses(raw)
    \cup UnknownKeyClauses(raw)
    \cup BulkClauses(raw)

\* slip: abortEarly is left at its default, the first clause ends validation
Validate_AbortEarly(label, clauses) ==
    IF clauses = {} THEN [none |-> TRUE]
    ELSE Spread(ValidationError(label),
                [details |-> {CHOOSE c \in clauses : TRUE}])

\* utils.validate under abortEarly: false: the error carries every clause
Validate(label, clauses) ==
    IF clauses = {} THEN [none |-> TRUE]
    ELSE Spread(ValidationError(label), [details |-> clauses])

----------------------------------------------------------------------------
(* lib/handler.js: construction *)

DEFAULT_RETRY_COUNT == 0

\* separator = '.' of the destructuring: the default applies when unset
Separator(opts) == IF Has(opts, "separator") THEN opts.separator ELSE "."

IndexPrefix(opts) == IF Has(opts, "indexPrefix") THEN opts.indexPrefix ELSE ""

BulkOpts(opts) ==
    IF Has(opts.elasticsearch, "bulk") THEN opts.elasticsearch.bulk ELSE EmptyObject

\* { retries: DEFAULT_RETRY_COUNT, ...options.retryOptions }
RetryOptions(opts) ==
    Spread([retries |-> DEFAULT_RETRY_COUNT],
           IF Has(opts, "retryOptions") THEN opts.retryOptions ELSE EmptyObject)

----------------------------------------------------------------------------
(* lib/handler.js: one record *)

\* a resolver option [arg |-> "doc" | "old", field |-> f] is the user function
\* (doc, old) => arg[field]
ApplyResolver(resolver, doc, old) ==
    IF resolver.arg = "doc" THEN Prop(doc, resolver.field)
    ELSE Prop(old, resolver.field)

CandidateDoc(opts, parsedRecord) ==
    IF Has(opts, "pickFields")
    THEN Pick(parsedRecord.NewImage, opts.pickFields)
    ELSE parsedRecord.NewImage

\* slip: idResolver is not consulted
ResolveId_IgnoresResolver(opts, parsedRecord, doc) ==
    IF Has(opts, "idField")
    THEN AssembleField(parsedRecord, opts.idField, Separator(opts))
    ELSE AssembleField(parsedRecord, [paths |-> ObjectKeys(parsedRecord.Keys)],
                       Separator(opts))

\* lines 52-58
ResolveId(opts, parsedRecord, doc) ==
    IF Has(opts, "idResolver")
    THEN ApplyResolver(opts.idResolver, doc, parsedRecord.OldImage)
    ELSE IF Has(opts, "idField")
    THEN AssembleField(parsedRecord, opts.idField, Separator(opts))
    ELSE AssembleField(parsedRecord, [paths |-> ObjectKeys(parsedRecord.Keys)],
                       Separator(opts))

\* slip: indexPrefix is left out of the index name
ResolveIndex_NoPrefix(opts, parsedRecord) ==
    IF Has(opts, "index")
    THEN Str(opts.index)
    ELSE IF ~Has(opts, "indexField")
    THEN FieldNotFoundError(parsedRecord, "undefined")
    ELSE LET f == AssembleField(parsedRecord, opts.indexField, Separator(opts))
         IN  IF IsError(f) THEN f ELSE Str(JsToString(f))

\* lines 61-62
ResolveIndex(opts, parsedRecord) ==
    IF Has(opts, "index")
    THEN Str(opts.index)
    ELSE IF ~Has(opts, "indexField")
    THEN FieldNotFoundError(parsedRecord, "undefined")
    ELSE LET f == AssembleField(parsedRecord, opts.indexField, Separator(opts))
         IN  IF IsError(f) THEN f ELSE Str(IndexPrefix(opts) \o JsToString(f))

ResolveType(opts, parsedRecord) ==
    IF Has(opts, "type")
    THEN Str(opts.type)
    ELSE IF Has(opts, "typeField")
    THEN AssembleField(parsedRecord, opts.typeField, Separator(opts))
    ELSE Undefined

\* lines 81-83: the version as the resolver or the field gives it
VersionValue(opts, parsedRecord, doc) ==
    IF Has(opts, "versionResolver")
    THEN ApplyResolver(opts.versionResolver, doc, parsedRecord.OldImage)
    ELSE GetField(parsedRecord, opts.versionField)

\* options.versionField || 'resolved version'
VersionLabel(opts) ==
    IF Has(opts, "versionField") THEN opts.versionField ELSE "resolved version"

\* slip: the version is tested for truthiness, so 0 is refused
ResolveVersion_ZeroIsAbsent(opts, parsedRecord, doc) ==
    LET version == VersionValue(opts, parsedRecord, doc)
    IN  IF IsError(version) THEN version
        ELSE IF ~(VersionIsValid(version) /\ Truthy(version))
        THEN ValidationError(VersionLabel(opts))
        ELSE version

\* lines 81-84: the version, validated
ResolveVersion(opts, parsedRecord, doc) ==
    LET version == VersionValue(opts, parsedRecord, doc)
    IN  IF IsError(version) THEN version
        ELSE IF ~VersionIsValid(version) THEN ValidationError(VersionLabel(opts))
        ELSE version

\* slip: a blank _type stays in the descriptor
BaseDescriptor_KeepsBlank(index, type, id) ==
    [_index |-> index, _type |-> type, _id |-> id]

\* the object literal with the blank _type deleted
BaseDescriptor(index, type, id) ==
    IF Truthy(type)
    THEN [_index |-> index, _type |-> type, _id |-> id]
    ELSE [_index |-> index, _id |-> id]

WithParent(desc, parent) == Spread(desc, [parent |-> parent])

\* slip: versionType is not set
WithVersion_NoType(desc, version) == Spread(desc, [version |-> version])

\* lines 85-86
WithVersion(desc, version) ==
    Spread(desc, [version |-> version, versionType |-> Str("external")])

\* lines 42-87: everything up to the transformRecordHook; the first failing
\* step is the error thrown
ResolveRecord(opts, record) ==
    LET parsedRecord == Unmarshall(record)
        doc    == CandidateDoc(opts, parsedRecord)
        id     == ResolveId(opts, parsedRecord, doc)
        index  == ResolveIndex(opts, parsedRecord)
        type   == ResolveType(opts, parsedRecord)
        parent == IF Has(opts, "parentField")
                  THEN GetField(parsedRecord, opts.parentField) ELSE Undefined
        hasVersion == Has(opts, "versionResolver") \/ Has(opts, "versionField")
        version == IF hasVersion THEN ResolveVersion(opts, parsedRecord, doc)
                   ELSE Undefined
        d0 == BaseDescriptor(index, type, id)
        d1 == IF Has(opts, "parentField") THEN WithParent(d0, parent) ELSE d0
        d2 == IF hasVersion THEN WithVersion(d1, version) ELSE d1
    IN  IF IsError(id) THEN id
        ELSE IF IsError(index) THEN index
        ELSE IF IsError(type) THEN type
        ELSE IF IsError(parent) THEN parent
        ELSE IF IsError(version) THEN version
        ELSE [parsedRecord |-> parsedRecord, doc |-> doc, desc |-> d2]

\* slip: the version of a REMOVE is left as resolved
IncrementVersion_Never(desc) == desc

\* actionDescriptionObj.version++ of the REMOVE case
IncrementVersion(desc) ==
    IF Has(desc, "version")
    THEN [desc EXCEPT !.version = Num(@.n + 1)]
    ELSE desc

\* slip: the record is stored as received, without the decoded maps
MetaEntry_RawEvent(record, parsedRecord, action, doc) ==
    [ event    |-> record,
      action   |-> action,
      document |-> doc ]

MetaEntry(record, parsedRecord, action, doc) ==
    [ event    |-> Spread(record, [dynamodb |-> Spread(record.dynamodb, parsedRecord)]),
      action   |-> action,
      document |-> doc ]

NothingPushed == [actions |-> <<>>, meta |-> <<>>]

\* slip: MODIFY has a case of its own that forgets the document
SwitchEventName_ModifyWithoutDoc(record, parsedRecord, desc, doc) ==
    IF record.eventName = "INSERT"
    THEN [ actions |-> <<[index |-> desc], doc>>,
           meta    |-> <<MetaEntry(record, parsedRecord, [index |-> desc], doc)>> ]
    ELSE IF record.eventName = "MODIFY"
    THEN [ actions |-> <<[index |-> desc]>>,
           meta    |-> <<MetaEntry(record, parsedRecord, [index |-> desc], doc)>> ]
    ELSE IF record.eventName = "REMOVE"
    THEN [ actions |-> <<[delete |-> IncrementVersion(desc)]>>,
           meta    |-> <<MetaEntry(record, parsedRecord,
                                   [delete |-> IncrementVersion(desc)], doc)>> ]
    ELSE UnknownEventNameError(record)

\* slip: the REMOVE case falls through to the push of the document
SwitchEventName_RemovePushesDoc(record, parsedRecord, desc, doc) ==
    IF record.eventName \in {"INSERT", "MODIFY"}
    THEN [ actions |-> <<[index |-> desc], doc>>,
           meta    |-> <<MetaEntry(record, parsedRecord, [index |-> desc], doc)>> ]
    ELSE IF record.eventName = "REMOVE"
    THEN [ actions |-> <<[delete |-> IncrementVersion(desc)], doc>>,
           meta    |-> <<MetaEntry(record, parsedRecord,
                                   [delete |-> IncrementVersion(desc)], doc)>> ]
    ELSE UnknownEventNameError(record)

\* the switch on record.eventName: what the record pushes, or the error thrown
SwitchEventName(record, parsedRecord, desc, doc) ==
    IF record.eventName \in {"INSERT", "MODIFY"}
    THEN [ actions |-> <<[index |-> desc], doc>>,
           meta    |-> <<MetaEntry(record, parsedRecord, [index |-> desc], doc)>> ]
    ELSE IF record.eventName = "REMOVE"
    THEN [ actions |-> <<[delete |-> IncrementVersion(desc)]>>,
           meta    |-> <<MetaEntry(record, parsedRecord,
                                   [delete |-> IncrementVersion(desc)], doc)>> ]
    ELSE UnknownEventNameError(record)

\* slip: the event name is checked before the document is tested
EmitRecord_ChecksNameFirst(record, parsedRecord, desc, doc) ==
    IF record.eventName \notin {"INSERT", "MODIFY", "REMOVE"}
    THEN UnknownEventNameError(record)
    ELSE IF Truthy(doc)
    THEN SwitchEventName(record, parsedRecord, desc, doc)
    ELSE NothingPushed

\* slip: the switch runs whatever the document is
EmitRecord_IgnoresDoc(record, parsedRecord, desc, doc) ==
    SwitchEventName(record, parsedRecord, desc, doc)

\* lines 93-126: if (doc) { switch ...; acc.meta.push(...) }
EmitRecord(record, parsedRecord, desc, doc) ==
    IF Truthy(doc)
    THEN SwitchEventName(record, parsedRecord, desc, doc)
    ELSE NothingPushed

\* slip: unshift instead of push
Push_Unshift(list, items) == items \o list

\* Array.prototype.push of several items
Push(list, items) == list \o items

----------------------------------------------------------------------------
(* Inputs: option sets and events *)

HookNames == {"beforeHook", "afterHook", "recordErrorHook", "errorHook",
              "transformRecordHook"}

\* the options every handler of the model is constructed with
BaseOptions ==
    [ elasticsearch |-> [client |-> TRUE, bulk |-> [refresh |-> Str("wait_for")]],
      index |-> "i",
      type  |-> "t" ]

\* the options a handler may have on top: a hook is a function (TRUE stands
\* for it, its behaviour is chosen when it is called)
OptionalOptions ==
    [ beforeHook          |-> TRUE,
      afterHook           |-> TRUE,
      recordErrorHook     |-> TRUE,
      errorHook           |-> TRUE,
      transformRecordHook |-> TRUE,
      versionField        |-> "v",
      retryOptions        |-> [retries |-> MaxRetries] ]

Restrict(obj, keys) == [k \in keys |-> obj[k]]

\* BaseOptions plus at most MaxOptions of the optional ones
OptionSets ==
    { Spread(BaseOptions, Restrict(OptionalOptions, keys)) :
        keys \in {K \in SUBSET DOMAIN OptionalOptions : Cardinality(K) <= MaxOptions} }

\* stream records as DynamoDB delivers them: INSERT has a new image, MODIFY
\* both images, REMOVE an old image.  Field "v" is the one a versionField names.

\* no "v" anywhere: a configured versionField is not found
InsertRecord ==
    [ eventName |-> "INSERT",
      dynamodb  |-> [ Keys     |-> [id |-> [S |-> "k1"]],
                      NewImage |-> [id |-> [S |-> "k1"]] ] ]

ModifyRecord ==
    [ eventName |-> "MODIFY",
      dynamodb  |-> [ Keys     |-> [id |-> [S |-> "k2"]],
                      NewImage |-> [id |-> [S |-> "k2"], v |-> [N |-> "0"]],
                      OldImage |-> [id |-> [S |-> "k2"], v |-> [N |-> "3"]] ] ]

RemoveRecord ==
    [ eventName |-> "REMOVE",
      dynamodb  |-> [ Keys     |-> [id |-> [S |-> "k3"]],
                      OldImage |-> [id |-> [S |-> "k3"], v |-> [N |-> "3"]] ] ]

UnknownRecord ==
    [ eventName |-> "UNKNOWN",
      dynamodb  |-> [ Keys     |-> [id |-> [S |-> "k4"]],
                      NewImage |-> [id |-> [S |-> "k4"], v |-> [N |-> "1"]] ] ]

\* a negative version
BadVersionRecord ==
    [ eventName |-> "INSERT",
      dynamodb  |-> [ Keys     |-> [id |-> [S |-> "k5"]],
                      NewImage |-> [id |-> [S |-> "k5"], v |-> [N |-> "-1"]] ] ]

\* eventName is missing: the event fails schemas.EVENT
MalformedRecord ==
    [ dynamodb  |-> [ Keys     |-> [id |-> [S |-> "k6"]],
                      NewImage |-> [id |-> [S |-> "k6"]] ] ]

RecordPool ==
    { InsertRecord, ModifyRecord, RemoveRecord, UnknownRecord, BadVersionRecord }

RECURSIVE SeqsUpTo(_, _)
SeqsUpTo(S, k) ==
    IF k = 0 THEN {<<>>}
    ELSE LET shorter == SeqsUpTo(S, k - 1)
         IN  shorter \cup {Append(q, x) : q \in shorter, x \in S}

\* an event without Records
NoRecordsEvent == [junk |-> Str("junk")]

\* a record without dynamodb, and one whose dynamodb has no Keys
NoDynamodbRecord == [eventName |-> "INSERT"]

NoKeysRecord ==
    [ eventName |-> "INSERT",
      dynamodb  |-> [NewImage |-> [id |-> [S |-> "k7"]]] ]

\* events that fail schemas.EVENT
InvalidEvents ==
    { NoRecordsEvent,
      [Records |-> <<MalformedRecord>>],
      [Records |-> <<InsertRecord, MalformedRecord>>],
      [Records |-> <<NoDynamodbRecord>>],
      [Records |-> <<InsertRecord, NoKeysRecord>>] }

Junk == [junk |-> Str("junk")]

\* testEvent.junk, testEvent.Records[k].junk, testEvent.Records[k].dynamodb.junk
WithUnknownFields(ev) ==
    Spread([Records |-> [k \in 1..Len(ev.Records) |->
                           Spread(Spread(ev.Records[k], Junk),
                                  [dynamodb |-> Spread(ev.Records[k].dynamodb, Junk)])]],
           Junk)

UnknownFieldEvents ==
    { WithUnknownFields([Records |-> q]) :
        q \in {<<InsertRecord>>, <<ModifyRecord, RemoveRecord>>} }

Events ==
    {[Records |-> q] : q \in SeqsUpTo(RecordPool, MaxRecords)}
    \cup InvalidEvents \cup UnknownFieldEvents

\* records for the field options: field "f" is the one a path option names, "v"
\* the version, "id" and "rk" the keys

\* "f" in all three maps with three values; a composite key with a number
KeysFieldRecord ==
    [ eventName |-> "MODIFY",
      dynamodb  |-> [ Keys     |-> [id |-> [S |-> "k1"], rk |-> [N |-> "2"],
                                    f |-> [S |-> "fk"]],
                      NewImage |-> [id |-> [S |-> "k1"], rk |-> [N |-> "2"],
                                    f |-> [S |-> "fn"], v |-> [N |-> "2"]],
                      OldImage |-> [id |-> [S |-> "k1"], rk |-> [N |-> "2"],
                                    f |-> [S |-> "fo"], v |-> [N |-> "1"]] ] ]

\* "f" in both images; version 0 in the new image
ImagesFieldRecord ==
    [ eventName |-> "MODIFY",
      dynamodb  |-> [ Keys     |-> [id |-> [S |-> "k2"]],
                      NewImage |-> [id |-> [S |-> "k2"], f |-> [S |-> "fn"],
                                    v |-> [N |-> "0"]],
                      OldImage |-> [id |-> [S |-> "k2"], f |-> [S |-> "fo"],
                                    v |-> [N |-> "4"]] ] ]

\* "f" and "v" in the old image only
OldFieldRecord ==
    [ eventName |-> "REMOVE",
      dynamodb  |-> [ Keys     |-> [id |-> [S |-> "k3"]],
                      OldImage |-> [id |-> [S |-> "k3"], f |-> [S |-> "fo"],
                                    v |-> [N |-> "3"]] ] ]

\* a blank "f" and a string "v" in the new image, other values in the old one
BlankFieldRecord ==
    [ eventName |-> "MODIFY",
      dynamodb  |-> [ Keys     |-> [id |-> [S |-> "k4"]],
                      NewImage |-> [id |-> [S |-> "k4"], f |-> [S |-> ""],
                                    v |-> [S |-> "1"]],
                      OldImage |-> [id |-> [S |-> "k4"], f |-> [S |-> "fo"],
                                    v |-> [N |-> "1"]] ] ]

\* no "f" anywhere; a negative version
NoFieldRecord ==
    [ eventName |-> "INSERT",
      dynamodb  |-> [ Keys     |-> [id |-> [S |-> "k5"]],
                      NewImage |-> [id |-> [S |-> "k5"], v |-> [N |-> "-1"]] ] ]

\* "f" is the number 0, in the old image only; no version
ZeroFieldRecord ==
    [ eventName |-> "REMOVE",
      dynamodb  |-> [ Keys     |-> [id |-> [S |-> "k6"]],
                      OldImage |-> [id |-> [S |-> "k6"], f |-> [N |-> "0"]] ] ]

FieldRecords ==
    { KeysFieldRecord, ImagesFieldRecord, OldFieldRecord, BlankFieldRecord,
      NoFieldRecord, ZeroFieldRecord }

FieldEvents == {[Records |-> <<r>>] : r \in FieldRecords}

\* one way to change BaseOptions: the options it sets and those it removes.
\* Changes of one slot exclude each other (idField or idResolver, index or
\* indexField, type or typeField, versionField or versionResolver).
OptionChange(slot, add, drop) == [slot |-> slot, add |-> add, drop |-> drop]

OptionChanges ==
    { OptionChange("id", [idField |-> [path |-> "f"]], {}),
      OptionChange("id", [idField |-> [paths |-> <<"f", "id">>]], {}),
      OptionChange("id", [idResolver |-> [arg |-> "doc", field |-> "f"]], {}),
      OptionChange("id", [idResolver |-> [arg |-> "old", field |-> "f"]], {}),
      OptionChange("index", [indexField |-> [path |-> "f"]], {"index"}),
      OptionChange("index", [indexField |-> [path |-> "f"], indexPrefix |-> "p-"],
                   {"index"}),
      OptionChange("type", [typeField |-> [path |-> "f"]], {"type"}),
      OptionChange("parent", [parentField |-> "f"], {}),
      OptionChange("version", [versionField |-> "v"], {}),
      OptionChange("version", [versionResolver |-> [arg |-> "doc", field |-> "v"]], {}),
      OptionChange("version", [versionResolver |-> [arg |-> "old", field |-> "v"]], {}),
      OptionChange("separator", [separator |-> ""], {}),
      OptionChange("separator", [separator |-> "-"], {}),
      OptionChange("pickFields", [pickFields |-> [paths |-> <<"id">>]], {}) }
    \cup { OptionChange(k, Restrict(OptionalOptions, {k}), {}) :
             k \in DOMAIN OptionalOptions \ {"versionField"} }

\* base with the changes of C applied
ApplyChanges(base, C) ==
    LET dropped == UNION {c.drop : c \in C}
        added   == UNION {DOMAIN c.add : c \in C}
    IN  [ k \in ((DOMAIN base \ dropped) \cup added) |->
            IF k \in added
            THEN (CHOOSE c \in C : k \in DOMAIN c.add).add[k]
            ELSE base[k] ]

\* BaseOptions with at most MaxOptions changes, of different slots
FieldOptionSets ==
    { ApplyChanges(BaseOptions, C) :
        C \in { D \in SUBSET OptionChanges :
                   /\ Cardinality(D) <= MaxOptions
                   /\ \A c, d \in D : c.slot = d.slot => c = d } }

\* what user code and the client may answer
TransformReturns == {[someProperty |-> Str("otherValue")], Null}
ClientResults ==
    { [took |-> 5, errors |-> FALSE, items |-> <<>>],
      [took |-> 5, errors |-> TRUE, items |-> <<>>] }
\* the client rejects every attempt with an error of its own
ClientError(attempt) == PlainError("bulk attempt " \o NumberToString(attempt))
AfterReturns == {Undefined, [hookResult |-> "after"]}
ErrorReturns == {Undefined, [hookResult |-> "recovered"]}

HookFailure(hook) == PlainError(hook)

----------------------------------------------------------------------------
(* lib/handler.js: the invocation *)

None == [none |-> TRUE]
Pending == [status |-> "pending"]
Resolved(v) == [status |-> "resolved", value |-> v]
Rejected(e) == [status |-> "rejected", error |-> e]

Call(fn, args) == Spread([fn |-> fn, phase |-> "call"], args)
Settle(fn, how) == [fn |-> fn, phase |-> "settle", how |-> how]

EmptyResult == [took |-> 0, errors |-> FALSE, items |-> <<>>]

\* slip: the bulk options are left out of the request
BulkArgs_BodyOnly(bulkOpts, actions) == [body |-> actions]

\* { ...bulkOpts, body: parsedEvent.actions }
BulkArgs(bulkOpts, actions) == Spread(bulkOpts, [body |-> actions])

\* slip: the short-circuit is never taken
IsEmpty_Never(actions) == FALSE

\* parsedEvent.actions.length === 0
IsEmpty(actions) == Len(actions) = 0

\* slip: retries counts the attempts, not the retries
ShouldRetry_CountsAttempts(attemptsMade, retryOptions) ==
    attemptsMade < retryOptions.retries

\* slip: retry is called whatever the number of attempts made
ShouldRetry_NoLimit(attemptsMade, retryOptions) == TRUE

\* promise-retry: after the attempts-th attempt failed, is another one made?
ShouldRetry(attemptsMade, retryOptions) == attemptsMade <= retryOptions.retries

Init ==
    /\ options \in OptionSets
    /\ event \in Events
    /\ pc = "start"
    /\ idx = 1
    /\ acc = [actions |-> <<>>, meta |-> <<>>]
    /\ cur = None
    /\ err = None
    /\ result = None
    /\ attempts = 0
    /\ outcome = Pending
    /\ calls = <<>>
    /\ contrib = <<>>
    /\ validations = 1
    /\ invocations = 1
    /\ other = None

\* slip: beforeHook is called without await
BeforeHookCall_NotAwaited ==
    /\ pc = "start"
    /\ IF Has(options, "beforeHook")
       THEN calls' = Append(calls, Call("beforeHook", [event |-> event]))
       ELSE UNCHANGED calls
    /\ pc' = "validate"
    /\ UNCHANGED <<other, validations, invocations,
                   options, event, idx, acc, cur, err, result, attempts, outcome,
                   contrib>>

\* lines 32-34: if (options.beforeHook) await options.beforeHook(event, context)
BeforeHookCall ==
    /\ pc = "start"
    /\ IF Has(options, "beforeHook")
       THEN /\ calls' = Append(calls, Call("beforeHook", [event |-> event]))
            /\ pc' = "beforePending"
       ELSE /\ pc' = "validate"
            /\ UNCHANGED calls
    /\ UNCHANGED <<other, validations, invocations,
                   options, event, idx, acc, cur, err, result, attempts, outcome,
                   contrib>>

BeforeHookSettle ==
    /\ pc = "beforePending"
    /\ \/ /\ calls' = Append(calls, Settle("beforeHook", "resolved"))
          /\ pc' = "validate"
          /\ UNCHANGED err
       \/ /\ calls' = Append(calls, Settle("beforeHook", "rejected"))
          /\ err' = HookFailure("beforeHook")
          /\ pc' = "catch"
    /\ UNCHANGED <<other, validations, invocations,
                   options, event, idx, acc, cur, result, attempts, outcome, contrib>>

\* line 36: utils.validate(event, schemas.EVENT, { allowUnknown: true })
ValidateEvent ==
    /\ pc = "validate"
    /\ IF EventIsValid(event)
       THEN /\ pc' = "record"
            /\ UNCHANGED err
       ELSE /\ err' = ValidationError("event")
            /\ pc' = "catch"
    /\ UNCHANGED <<other, validations, invocations,
                   options, event, idx, acc, cur, result, attempts, outcome, calls,
                   contrib>>

\* what one record did, kept per processed record:
\*   kind "emitted" | "dropped" | "swallowed" | "failed", the record's position,
\*   what it pushed, the error it raised, and the doc tested by if (doc)
Contribution(kind, record, pushed, error, doc) ==
    [kind |-> kind, record |-> record, pushed |-> pushed, error |-> error,
     doc |-> doc]

\* slip: the catch swallows the error although no recordErrorHook is there
RecordCatch_Swallow(e, doc, log) ==
    IF Has(options, "recordErrorHook")
    THEN /\ calls' = Append(log, Call("recordErrorHook",
                                      [event |-> event, error |-> e]))
         /\ pc' = "recordErrorPending"
         /\ cur' = [error |-> e, doc |-> doc]
         /\ UNCHANGED <<idx, acc, err, contrib>>
    ELSE /\ calls' = log
         /\ idx' = idx + 1
         /\ pc' = "record"
         /\ cur' = None
         /\ contrib' = Append(contrib,
                Contribution("failed", idx, NothingPushed, e, doc))
         /\ UNCHANGED <<acc, err>>

\* lines 127-133: the catch of the record's try block
RecordCatch(e, doc, log) ==
    IF Has(options, "recordErrorHook")
    THEN /\ calls' = Append(log, Call("recordErrorHook",
                                      [event |-> event, error |-> e]))
         /\ pc' = "recordErrorPending"
         /\ cur' = [error |-> e, doc |-> doc]
         /\ UNCHANGED <<idx, acc, err, contrib>>
    ELSE /\ calls' = log
         /\ err' = e
         /\ pc' = "catch"
         /\ cur' = None
         /\ contrib' = Append(contrib,
                Contribution("failed", idx, NothingPushed, e, doc))
         /\ UNCHANGED <<idx, acc>>

\* slip: idResolver is called after transformRecordHook, with its result
FinishRecord_ResolvesAfterHook(record, r, doc, log) ==
    LET desc == IF Has(options, "idResolver")
                THEN [r.desc EXCEPT !._id = ApplyResolver(options.idResolver, doc,
                                                          r.parsedRecord.OldImage)]
                ELSE r.desc
        pushed == EmitRecord(record, r.parsedRecord, desc, doc)
    IN  IF IsError(pushed)
        THEN RecordCatch(pushed, doc, log)
        ELSE /\ acc' = [ actions |-> Push(acc.actions, pushed.actions),
                         meta    |-> Push(acc.meta, pushed.meta) ]
             /\ contrib' = Append(contrib,
                    Contribution(IF Truthy(doc) THEN "emitted" ELSE "dropped",
                                 idx, pushed, None, doc))
             /\ idx' = idx + 1
             /\ pc' = "record"
             /\ cur' = None
             /\ calls' = log
             /\ UNCHANGED err

\* lines 93-126 and 135: emit what the record produces and return acc
FinishRecord(record, r, doc, log) ==
    LET pushed == EmitRecord(record, r.parsedRecord, r.desc, doc)
    IN  IF IsError(pushed)
        THEN RecordCatch(pushed, doc, log)
        ELSE /\ acc' = [ actions |-> Push(acc.actions, pushed.actions),
                         meta    |-> Push(acc.meta, pushed.meta) ]
             /\ contrib' = Append(contrib,
                    Contribution(IF Truthy(doc) THEN "emitted" ELSE "dropped",
                                 idx, pushed, None, doc))
             /\ idx' = idx + 1
             /\ pc' = "record"
             /\ cur' = None
             /\ calls' = log
             /\ UNCHANGED err

\* lines 38-91: the reduce callback up to the await of transformRecordHook
ProcessRecord ==
    /\ pc = "record"
    /\ idx <= Len(event.Records)
    /\ LET record == event.Records[idx]
           r == ResolveRecord(options, record)
       IN  IF IsError(r)
           THEN RecordCatch(r, Undefined, calls)
           ELSE IF Has(options, "transformRecordHook")
           THEN /\ calls' = Append(calls, Call("transformRecordHook",
                                   [doc |-> r.doc, old |-> r.parsedRecord.OldImage]))
                /\ cur' = r
                /\ pc' = "transformPending"
                /\ UNCHANGED <<idx, acc, err, contrib>>
           ELSE FinishRecord(record, r, r.doc, calls)
    /\ UNCHANGED <<other, validations, invocations,
                   options, event, result, attempts, outcome>>

\* line 90: doc = await options.transformRecordHook(doc, parsedRecord.OldImage)
TransformHookSettle ==
    /\ pc = "transformPending"
    /\ \/ \E ret \in TransformReturns :
             FinishRecord(event.Records[idx], cur, ret,
                          Append(calls, Spread(Settle("transformRecordHook", "resolved"),
                                               [value |-> ret])))
       \/ RecordCatch(HookFailure("transformRecordHook"), Undefined,
                      Append(calls, Settle("transformRecordHook", "rejected")))
    /\ UNCHANGED <<other, validations, invocations,
                   options, event, result, attempts, outcome>>

\* slip: the error is rethrown after the hook has handled it
RecordErrorHookSettle_Rethrow ==
    /\ pc = "recordErrorPending"
    /\ \/ /\ calls' = Append(calls, Settle("recordErrorHook", "resolved"))
          /\ contrib' = Append(contrib,
                 Contribution("swallowed", idx, NothingPushed, cur.error, cur.doc))
          /\ err' = cur.error
          /\ pc' = "catch"
       \/ /\ calls' = Append(calls, Settle("recordErrorHook", "rejected"))
          /\ contrib' = Append(contrib,
                 Contribution("failed", idx, NothingPushed, cur.error, cur.doc))
          /\ err' = HookFailure("recordErrorHook")
          /\ pc' = "catch"
    /\ cur' = None
    /\ UNCHANGED <<other, validations, invocations,
                   options, event, idx, acc, result, attempts, outcome>>

\* slip: a rejection of the hook is swallowed like the record's error
RecordErrorHookSettle_SwallowsRejection ==
    /\ pc = "recordErrorPending"
    /\ \/ /\ calls' = Append(calls, Settle("recordErrorHook", "resolved"))
          /\ contrib' = Append(contrib,
                 Contribution("swallowed", idx, NothingPushed, cur.error, cur.doc))
       \/ /\ calls' = Append(calls, Settle("recordErrorHook", "rejected"))
          /\ contrib' = Append(contrib,
                 Contribution("failed", idx, NothingPushed, cur.error, cur.doc))
    /\ idx' = idx + 1
    /\ pc' = "record"
    /\ cur' = None
    /\ UNCHANGED <<other, validations, invocations,
                   options, event, acc, err, result, attempts, outcome>>

\* line 129: await options.recordErrorHook(event, context, err)
RecordErrorHookSettle ==
    /\ pc = "recordErrorPending"
    /\ \/ /\ calls' = Append(calls, Settle("recordErrorHook", "resolved"))
          /\ contrib' = Append(contrib,
                 Contribution("swallowed", idx, NothingPushed, cur.error, cur.doc))
          /\ idx' = idx + 1
          /\ pc' = "record"
          /\ UNCHANGED err
       \/ /\ calls' = Append(calls, Settle("recordErrorHook", "rejected"))
          /\ contrib' = Append(contrib,
                 Contribution("failed", idx, NothingPushed, cur.error, cur.doc))
          /\ err' = HookFailure("recordErrorHook")
          /\ pc' = "catch"
          /\ UNCHANGED idx
    /\ cur' = None
    /\ UNCHANGED <<other, validations, invocations,
                   options, event, acc, result, attempts, outcome>>

\* slip: the reduce is not awaited, the last record is still to be processed
AfterReduce_NotAwaited ==
    /\ pc = "record"
    /\ idx >= Len(event.Records)
    /\ IF IsEmpty(acc.actions)
       THEN /\ result' = [result |-> EmptyResult, meta |-> acc.meta]
            /\ pc' = "then"
            /\ UNCHANGED <<calls, attempts>>
       ELSE /\ calls' = Append(calls, Call("bulk",
                               [args |-> BulkArgs(BulkOpts(options), acc.actions)]))
            /\ attempts' = attempts + 1
            /\ pc' = "bulkPending"
            /\ UNCHANGED result
    /\ UNCHANGED <<other, validations, invocations,
                   options, event, idx, acc, cur, err, outcome, contrib>>

\* lines 138-154: the empty short-circuit, else the first attempt of promiseRetry
AfterReduce ==
    /\ pc = "record"
    /\ idx > Len(event.Records)
    /\ IF IsEmpty(acc.actions)
       THEN /\ result' = [result |-> EmptyResult, meta |-> acc.meta]
            /\ pc' = "then"
            /\ UNCHANGED <<calls, attempts>>
       ELSE /\ calls' = Append(calls, Call("bulk",
                               [args |-> BulkArgs(BulkOpts(options), acc.actions)]))
            /\ attempts' = attempts + 1
            /\ pc' = "bulkPending"
            /\ UNCHANGED result
    /\ UNCHANGED <<other, validations, invocations,
                   options, event, idx, acc, cur, err, outcome, contrib>>

\* slip: a result with errors: true is treated as a failed attempt
BulkResolve_RetryOnErrors ==
    /\ pc = "bulkPending"
    /\ \E r \in ClientResults :
          /\ calls' = Append(calls, Spread(Settle("bulk", "resolved"), [result |-> r]))
          /\ IF r.errors
             THEN /\ pc' = "retryWait"
                  /\ UNCHANGED result
             ELSE /\ result' = [result |-> r, meta |-> acc.meta]
                  /\ pc' = "then"
    /\ UNCHANGED <<other, validations, invocations,
                   options, event, idx, acc, cur, err, attempts, outcome, contrib>>

\* lines 155-160: the bulk promise resolves
BulkResolve ==
    /\ pc = "bulkPending"
    /\ \E r \in ClientResults :
          /\ calls' = Append(calls, Spread(Settle("bulk", "resolved"), [result |-> r]))
          /\ result' = [result |-> r, meta |-> acc.meta]
    /\ pc' = "then"
    /\ UNCHANGED <<other, validations, invocations,
                   options, event, idx, acc, cur, err, attempts, outcome, contrib>>

\* line 161: .catch(retry), then promise-retry retries or gives up
BulkReject ==
    /\ pc = "bulkPending"
    /\ LET e == ClientError(attempts)
       IN /\ calls' = Append(calls, Spread(Settle("bulk", "rejected"), [error |-> e]))
          /\ IF ShouldRetry(attempts, RetryOptions(options))
             THEN /\ pc' = "retryWait"
                  /\ UNCHANGED err
             ELSE /\ err' = e
                  /\ pc' = "catch"
    /\ UNCHANGED <<other, validations, invocations,
                   options, event, idx, acc, cur, result, attempts, outcome, contrib>>

\* slip: the retry resends the list without its first entry
BulkRetry_Partial ==
    /\ pc = "retryWait"
    /\ calls' = Append(calls, Call("bulk",
                       [args |-> BulkArgs(BulkOpts(options), Tail(acc.actions))]))
    /\ attempts' = attempts + 1
    /\ pc' = "bulkPending"
    /\ UNCHANGED <<other, validations, invocations,
                   options, event, idx, acc, cur, err, result, outcome, contrib>>

\* lines 149-154 again: the next attempt of promiseRetry
BulkRetry ==
    /\ pc = "retryWait"
    /\ calls' = Append(calls, Call("bulk",
                       [args |-> BulkArgs(BulkOpts(options), acc.actions)]))
    /\ attempts' = attempts + 1
    /\ pc' = "bulkPending"
    /\ UNCHANGED <<other, validations, invocations,
                   options, event, idx, acc, cur, err, result, outcome, contrib>>

\* lines 164-173: the second .then
ThenStage ==
    /\ pc = "then"
    /\ IF Has(options, "afterHook")
       THEN /\ calls' = Append(calls, Call("afterHook",
                   [event |-> event, result |-> result.result, meta |-> result.meta]))
            /\ pc' = "afterPending"
            /\ UNCHANGED outcome
       ELSE /\ outcome' = Resolved(result.result)
            /\ pc' = "done"
            /\ UNCHANGED calls
    /\ UNCHANGED <<other, validations, invocations,
                   options, event, idx, acc, cur, err, result, attempts, contrib>>

\* slip: a failure of afterHook is caught and the client's result returned
AfterHookSettle_SwallowsFailure ==
    /\ pc = "afterPending"
    /\ \/ \E hookResult \in AfterReturns :
             /\ calls' = Append(calls, Spread(Settle("afterHook", "resolved"),
                                              [value |-> hookResult]))
             /\ outcome' = Resolved(IF hookResult # Undefined THEN hookResult
                                    ELSE result.result)
       \/ /\ calls' = Append(calls, Settle("afterHook", "rejected"))
          /\ outcome' = Resolved(result.result)
    /\ pc' = "done"
    /\ UNCHANGED <<other, validations, invocations,
                   options, event, idx, acc, cur, err, result, attempts, contrib>>

\* slip: the hook's return value is used even when it is undefined
AfterHookSettle_HookResultOnly ==
    /\ pc = "afterPending"
    /\ \/ \E hookResult \in AfterReturns :
             /\ calls' = Append(calls, Spread(Settle("afterHook", "resolved"),
                                              [value |-> hookResult]))
             /\ outcome' = Resolved(hookResult)
             /\ pc' = "done"
             /\ UNCHANGED err
       \/ /\ calls' = Append(calls, Settle("afterHook", "rejected"))
          /\ err' = HookFailure("afterHook")
          /\ pc' = "catch"
          /\ UNCHANGED outcome
    /\ UNCHANGED <<other, validations, invocations,
                   options, event, idx, acc, cur, result, attempts, contrib>>

\* lines 168-170: hookResult !== undefined ? hookResult : result.result
AfterHookSettle ==
    /\ pc = "afterPending"
    /\ \/ \E hookResult \in AfterReturns :
             /\ calls' = Append(calls, Spread(Settle("afterHook", "resolved"),
                                              [value |-> hookResult]))
             /\ outcome' = Resolved(IF hookResult # Undefined THEN hookResult
                                    ELSE result.result)
             /\ pc' = "done"
             /\ UNCHANGED err
       \/ /\ calls' = Append(calls, Settle("afterHook", "rejected"))
          /\ err' = HookFailure("afterHook")
          /\ pc' = "catch"
          /\ UNCHANGED outcome
    /\ UNCHANGED <<other, validations, invocations,
                   options, event, idx, acc, cur, result, attempts, contrib>>

\* lines 174-179: the final .catch
CatchStage ==
    /\ pc = "catch"
    /\ IF Has(options, "errorHook")
       THEN /\ calls' = Append(calls, Call("errorHook",
                                           [event |-> event, error |-> err]))
            /\ pc' = "errorPending"
            /\ UNCHANGED outcome
       ELSE /\ outcome' = Rejected(err)
            /\ pc' = "done"
            /\ UNCHANGED calls
    /\ UNCHANGED <<other, validations, invocations,
                   options, event, idx, acc, cur, err, result, attempts, contrib>>

\* slip: an undefined return value of errorHook rethrows the error
ErrorHookSettle_UndefinedRethrows ==
    /\ pc = "errorPending"
    /\ \/ \E ret \in ErrorReturns :
             /\ calls' = Append(calls, Spread(Settle("errorHook", "resolved"),
                                              [value |-> ret]))
             /\ outcome' = IF ret # Undefined THEN Resolved(ret) ELSE Rejected(err)
       \/ /\ calls' = Append(calls, Settle("errorHook", "rejected"))
          /\ outcome' = Rejected(HookFailure("errorHook"))
    /\ pc' = "done"
    /\ UNCHANGED <<other, validations, invocations,
                   options, event, idx, acc, cur, err, result, attempts, contrib>>

\* line 176: what errorHook returns settles the invocation
ErrorHookSettle ==
    /\ pc = "errorPending"
    /\ \/ \E ret \in ErrorReturns :
             /\ calls' = Append(calls, Spread(Settle("errorHook", "resolved"),
                                              [value |-> ret]))
             /\ outcome' = Resolved(ret)
       \/ /\ calls' = Append(calls, Settle("errorHook", "rejected"))
          /\ outcome' = Rejected(HookFailure("errorHook"))
    /\ pc' = "done"
    /\ UNCHANGED <<other, validations, invocations,
                   options, event, idx, acc, cur, err, result, attempts, contrib>>

Next ==
    \/ BeforeHookCall
    \/ BeforeHookSettle
    \/ ValidateEvent
    \/ ProcessRecord
    \/ TransformHookSettle
    \/ RecordErrorHookSettle
    \/ AfterReduce
    \/ BulkResolve
    \/ BulkReject
    \/ BulkRetry
    \/ ThenStage
    \/ AfterHookSettle
    \/ CatchStage
    \/ ErrorHookSettle

Spec == Init /\ [][Next]_vars

\* the handler constructed with field options, invoked with one record
FieldInit ==
    /\ options \in FieldOptionSets
    /\ event \in FieldEvents
    /\ pc = "start"
    /\ idx = 1
    /\ acc = [actions |-> <<>>, meta |-> <<>>]
    /\ cur = None
    /\ err = None
    /\ result = None
    /\ attempts = 0
    /\ outcome = Pending
    /\ calls = <<>>
    /\ contrib = <<>>
    /\ validations = 1
    /\ invocations = 1
    /\ other = None

FieldSpec == FieldInit /\ [][Next]_vars

\* the events of the specification with fairness: up to MaxRecords records,
\* each one that emits or one that raises an error, and the event without Records
LiveEvents ==
    {[Records |-> q] : q \in SeqsUpTo({InsertRecord, UnknownRecord}, MaxRecords)}
    \cup {NoRecordsEvent}

\* no optional option, each one alone, and all of them together
LiveOptionSets ==
    {BaseOptions}
    \cup {Spread(BaseOptions, Restrict(OptionalOptions, {k})) : k \in DOMAIN OptionalOptions}
    \cup {Spread(BaseOptions, OptionalOptions)}

LiveInit ==
    /\ options \in LiveOptionSets
    /\ event \in LiveEvents
    /\ pc = "start"
    /\ idx = 1
    /\ acc = [actions |-> <<>>, meta |-> <<>>]
    /\ cur = None
    /\ err = None
    /\ result = None
    /\ attempts = 0
    /\ outcome = Pending
    /\ calls = <<>>
    /\ contrib = <<>>
    /\ validations = 1
    /\ invocations = 1
    /\ other = None

\* every continuation that is ready is run by the event loop, and every call
\* that was made settles: a step that stays possible is taken
LiveSpec == LiveInit /\ [][Next]_vars /\ WF_vars(Next)

----------------------------------------------------------------------------
(* Two invocations of one handler, interleaved at their suspension points *)

\* what one call of the handler's function holds in its closure and locals
Invocation ==
    [ event |-> event, pc |-> pc, idx |-> idx, acc |-> acc, cur |-> cur,
      err |-> err, result |-> result, attempts |-> attempts, outcome |-> outcome,
      calls |-> calls, contrib |-> contrib ]

\* BaseOptions alone and with each of the optional options
ConcurrentOptionSets ==
    {BaseOptions}
    \cup { Spread(BaseOptions, Restrict(OptionalOptions, {k})) :
             k \in DOMAIN OptionalOptions }

ConcurrentEvents ==
    { [Records |-> <<InsertRecord>>],
      [Records |-> <<RemoveRecord, UnknownRecord>>] }

\* the handler was invoked twice before either chain ran its first callback
ConcurrentInit ==
    /\ options \in ConcurrentOptionSets
    /\ event \in ConcurrentEvents
    /\ pc = "start"
    /\ idx = 1
    /\ acc = [actions |-> <<>>, meta |-> <<>>]
    /\ cur = None
    /\ err = None
    /\ result = None
    /\ attempts = 0
    /\ outcome = Pending
    /\ calls = <<>>
    /\ contrib = <<>>
    /\ validations = 1
    /\ invocations = 2
    /\ \E ev \in ConcurrentEvents :
          other = [ id |-> 2, event |-> ev, pc |-> "start", idx |-> 1,
                    acc |-> [actions |-> <<>>, meta |-> <<>>], cur |-> None,
                    err |-> None, result |-> None, attempts |-> 0,
                    outcome |-> Pending, calls |-> <<>>, contrib |-> <<>> ]

\* the chain yields where it awaits and between its callbacks; validation runs
\* in the same turn as the step before it
Suspended == pc # "validate"

\* slip: the accumulator is created once, in the closure of lambdaHandler
Resume_SharedAccumulator ==
    /\ other # None
    /\ Suspended
    /\ event' = other.event
    /\ pc' = other.pc
    /\ idx' = other.idx
    /\ cur' = other.cur
    /\ err' = other.err
    /\ result' = other.result
    /\ attempts' = other.attempts
    /\ outcome' = other.outcome
    /\ calls' = other.calls
    /\ contrib' = other.contrib
    /\ other' = Spread(Invocation, [id |-> 3 - other.id])
    /\ UNCHANGED <<acc, options, validations, invocations>>

\* lines 29-38 and 136: the event loop leaves the running invocation at a
\* suspension point and resumes the other one; event, the accumulator and all
\* locals belong to the invocation
Resume ==
    /\ other # None
    /\ Suspended
    /\ event' = other.event
    /\ pc' = other.pc
    /\ idx' = other.idx
    /\ acc' = other.acc
    /\ cur' = other.cur
    /\ err' = other.err
    /\ result' = other.result
    /\ attempts' = other.attempts
    /\ outcome' = other.outcome
    /\ calls' = other.calls
    /\ contrib' = other.contrib
    /\ other' = Spread(Invocation, [id |-> 3 - other.id])
    /\ UNCHANGED <<options, validations, invocations>>

ConcurrentNext ==
    \/ Resume
    \/ Next

ConcurrentSpec == ConcurrentInit /\ [][ConcurrentNext]_vars

----------------------------------------------------------------------------
(* Construction: lambdaHandler(options), then invocations of what it returns *)

\* a value for each option that takes part in a constraint of the schema
OptionValue ==
    [ index           |-> "i",
      indexField      |-> [path |-> "f"],
      indexPrefix     |-> "p-",
      type            |-> "t",
      typeField       |-> [path |-> "f"],
      idField         |-> [path |-> "f"],
      idResolver      |-> [arg |-> "doc", field |-> "f"],
      versionField    |-> "v",
      versionResolver |-> [arg |-> "old", field |-> "v"],
      junk            |-> "junk" ]

\* no elasticsearch option, or one with a client and without or with bulk
\* options, the last with a body of its own
ElasticsearchOptions ==
    { EmptyObject,
      [elasticsearch |-> [client |-> TRUE]],
      [elasticsearch |-> [client |-> TRUE, bulk |-> [refresh |-> Str("wait_for")]]],
      [elasticsearch |-> [client |-> TRUE,
                          bulk |-> [refresh |-> Str("wait_for"),
                                    body |-> Str("mine")]]] }

\* the objects lambdaHandler is called with; the empty object is also what a
\* missing argument defaults to
CandidateOptions ==
    { Spread(Restrict(OptionValue, K), es) :
        K \in SUBSET DOMAIN OptionValue, es \in ElasticsearchOptions }
    \cup { Spread(BaseOptions, Restrict(OptionalOptions, {k})) :
             k \in DOMAIN OptionalOptions }

ConstructEvents ==
    { [Records |-> <<>>],
      [Records |-> <<InsertRecord>>],
      [Records |-> <<UnknownRecord>>],
      [Records |-> <<KeysFieldRecord>>] }

\* what the destructuring of an absent options.elasticsearch throws
TypeError == [name |-> "TypeError", message |-> "Cannot destructure property"]

ConstructInit ==
    /\ options \in CandidateOptions
    /\ event = None
    /\ pc = "construct"
    /\ idx = 1
    /\ acc = [actions |-> <<>>, meta |-> <<>>]
    /\ cur = None
    /\ err = None
    /\ result = None
    /\ attempts = 0
    /\ outcome = Pending
    /\ calls = <<>>
    /\ contrib = <<>>
    /\ validations = 0
    /\ other = None
    /\ invocations = 0

\* slip: the handler is returned although validation failed
Construct_ReturnsHandler ==
    /\ pc = "construct"
    /\ validations' = validations + 1
    /\ IF ~Has(options, "elasticsearch")
       THEN /\ err' = TypeError
            /\ pc' = "thrown"
       ELSE /\ pc' = "idle"
            /\ UNCHANGED err
    /\ UNCHANGED <<other, invocations, options, event, idx, acc, cur, result, attempts,
                   outcome, calls, contrib>>

\* lines 13-25 and 181: validate the options, read them, return the handler
Construct ==
    /\ pc = "construct"
    /\ validations' = validations + 1
    /\ LET e == Validate("options", HANDLER_OPTIONS(options))
       IN  IF e # None
           THEN /\ err' = e
                /\ pc' = "thrown"
           ELSE IF ~Has(options, "elasticsearch")
           THEN /\ err' = TypeError
                /\ pc' = "thrown"
           ELSE /\ pc' = "idle"
                /\ UNCHANGED err
    /\ UNCHANGED <<other, invocations, options, event, idx, acc, cur, result, attempts,
                   outcome, calls, contrib>>

\* lines 27-30: the returned handler is invoked with an event; every
\* invocation starts a promise chain of its own
Invoke ==
    /\ pc \in {"idle", "done"}
    /\ invocations < MaxInvocations
    /\ event' \in ConstructEvents
    /\ invocations' = invocations + 1
    /\ pc' = "start"
    /\ idx' = 1
    /\ acc' = [actions |-> <<>>, meta |-> <<>>]
    /\ cur' = None
    /\ err' = None
    /\ result' = None
    /\ attempts' = 0
    /\ outcome' = Pending
    /\ calls' = <<>>
    /\ contrib' = <<>>
    /\ UNCHANGED <<other, validations, options>>

ConstructNext ==
    \/ Construct
    \/ Invoke
    \/ Next

ConstructSpec == ConstructInit /\ [][ConstructNext]_vars

----------------------------------------------------------------------------
(* Properties *)

RECURSIVE ConcatPushed(_, _)
\* the entries the first k processed records pushed, in processing order
ConcatPushed(k, field) ==
    IF k = 0 THEN <<>>
    ELSE ConcatPushed(k - 1, field) \o contrib[k].pushed[field]

IsBulkCall(c) == c.fn = "bulk" /\ c.phase = "call"
IsBulkSettle(c) == c.fn = "bulk" /\ c.phase = "settle"
IsHookCall(c, hook) == c.fn = hook /\ c.phase = "call"

BulkCalls == SelectSeq(calls, IsBulkCall)
BulkSettles == SelectSeq(calls, IsBulkSettle)

RecordOf(c) == event.Records[c.record]

\* C1: a record with a truthy document pushes {index: descriptor} and then the
\* document when it is an INSERT or MODIFY, and {delete: descriptor} alone when
\* it is a REMOVE; the entries sit next to each other in the action list.
C1_ActionShape ==
    \A k \in 1..Len(contrib) :
        LET c == contrib[k]
            from == Len(ConcatPushed(k - 1, "actions"))
            pushed == c.pushed.actions
        IN  (c.error = None /\ Truthy(c.doc)) =>
              /\ RecordOf(c).eventName \in {"INSERT", "MODIFY"} =>
                    /\ Len(pushed) = 2
                    /\ DOMAIN pushed[1] = {"index"}
                    /\ pushed[1].index = ResolveRecord(options, RecordOf(c)).desc
                    /\ pushed[2] = c.doc
              /\ RecordOf(c).eventName = "REMOVE" =>
                    /\ Len(pushed) = 1
                    /\ DOMAIN pushed[1] = {"delete"}
                    /\ pushed[1].delete._id = ResolveRecord(options, RecordOf(c)).desc._id
              /\ RecordOf(c).eventName \in {"INSERT", "MODIFY", "REMOVE"}
              /\ Len(acc.actions) >= from + Len(pushed)
              /\ SubSeq(acc.actions, from + 1, from + Len(pushed)) = pushed

\* an INSERT and a REMOVE of one event have both pushed their entries
C1_Witness ==
    /\ Len(contrib) = 2
    /\ contrib[1].kind = "emitted" /\ RecordOf(contrib[1]).eventName = "INSERT"
    /\ contrib[2].kind = "emitted" /\ RecordOf(contrib[2]).eventName = "REMOVE"
    /\ Len(acc.actions) = 3

\* C2: the action list is the concatenation, in input order, of what each
\* record contributed, and so is the metadata list; records are processed in
\* input order, each once.
C2_InputOrder ==
    /\ \A k \in 1..Len(contrib) : contrib[k].record = k
    /\ acc.actions = ConcatPushed(Len(contrib), "actions")
    /\ acc.meta = ConcatPushed(Len(contrib), "meta")
    /\ \A k \in 1..Len(acc.meta) :
          \E j \in 1..Len(contrib) :
             /\ contrib[j].pushed.meta = <<acc.meta[k]>>
             /\ acc.meta[k].event.eventName = RecordOf(contrib[j]).eventName
             /\ Len(ConcatPushed(j, "meta")) = k

\* two different records have each contributed, all records are processed
C2_Witness ==
    /\ pc = "done"
    /\ Len(contrib) = 2
    /\ Len(event.Records) = 2
    /\ contrib[1].kind = "emitted" /\ contrib[2].kind = "emitted"
    /\ event.Records[1] # event.Records[2]
    /\ Len(acc.meta) = 2

IsRecordScoped(e) ==
    /\ IsError(e)
    /\ e.name \in {"FieldNotFoundError", "ValidationError", "UnknownEventNameError"}

Aborted == pc \in {"catch", "errorPending", "done"}

\* C3: a record-scoped error without recordErrorHook aborts the batch: it is
\* the last record processed and esclient.bulk is never called, whatever the
\* earlier records pushed.
C3_AbortWithoutDispatch ==
    \A k \in 1..Len(contrib) :
        (IsRecordScoped(contrib[k].error) /\ ~Has(options, "recordErrorHook")) =>
            /\ contrib[k].kind = "failed"
            /\ k = Len(contrib)
            /\ Aborted
            /\ err = contrib[k].error
            /\ BulkCalls = <<>>

\* the second record failed after the first had pushed its actions
C3_Witness ==
    /\ pc = "done"
    /\ ~Has(options, "recordErrorHook")
    /\ Len(contrib) = 2
    /\ contrib[1].kind = "emitted"
    /\ contrib[2].kind = "failed" /\ IsRecordScoped(contrib[2].error)
    /\ Len(acc.actions) > 0
    /\ BulkCalls = <<>>

RecordErrorHookCalls == SelectSeq(calls, LAMBDA c : IsHookCall(c, "recordErrorHook"))
Errored == SelectSeq(contrib, LAMBDA c : IsError(c.error))
PastReduce == pc \in {"bulkPending", "retryWait", "then", "afterPending"}

\* C4: with recordErrorHook, each record error calls the hook once with
\* (event, error); the record pushes nothing, the error never becomes the
\* batch error, the remaining records are processed and what they pushed is
\* dispatched.
C4_HookSwallows ==
    Has(options, "recordErrorHook") =>
        /\ Len(RecordErrorHookCalls) =
              Len(Errored) + (IF pc = "recordErrorPending" THEN 1 ELSE 0)
        /\ \A j \in 1..Len(Errored) :
              /\ RecordErrorHookCalls[j].error = Errored[j].error
              /\ RecordErrorHookCalls[j].event = event
              /\ Errored[j].pushed = NothingPushed
              /\ err # Errored[j].error
        /\ \A k \in 1..Len(contrib) :
              contrib[k].kind = "swallowed" => (k < Len(contrib) \/ idx = k + 1)
        /\ PastReduce => Len(contrib) = Len(event.Records)
        /\ (PastReduce /\ Len(acc.actions) > 0) =>
              /\ Len(BulkCalls) > 0
              /\ BulkCalls[1].args.body = ConcatPushed(Len(contrib), "actions")

\* the first record's error was swallowed and the second record dispatched
C4_Witness ==
    /\ pc = "done"
    /\ Has(options, "recordErrorHook")
    /\ Len(contrib) = 2
    /\ contrib[1].kind = "swallowed" /\ IsRecordScoped(contrib[1].error)
    /\ contrib[2].kind = "emitted"
    /\ Len(RecordErrorHookCalls) = 1
    /\ Len(BulkCalls) = 1
    /\ BulkCalls[1].args.body = contrib[2].pushed.actions
    /\ Len(acc.meta) = 1

IsKnownEventName(name) == name \in {"INSERT", "MODIFY", "REMOVE"}

\* C5: a record of unknown event name with a truthy document raises
\* UnknownEventNameError whose details are the raw record; without
\* recordErrorHook and errorHook the invocation is rejected with that error.
C5_UnknownEventName ==
    \A k \in 1..Len(contrib) :
        LET c == contrib[k]
        IN  /\ (Truthy(c.doc) /\ ~IsKnownEventName(RecordOf(c).eventName)) =>
                  /\ IsError(c.error)
                  /\ c.error.name = "UnknownEventNameError"
                  /\ c.error.details = RecordOf(c)
                  /\ c.pushed = NothingPushed
            /\ (/\ IsError(c.error)
                /\ c.error.name = "UnknownEventNameError"
                /\ ~Has(options, "recordErrorHook")
                /\ ~Has(options, "errorHook")
                /\ pc = "done") =>
                  /\ outcome = Rejected(c.error)
                  /\ outcome.error.details = event.Records[k]

\* the invocation was rejected with the error of its UNKNOWN record
C5_Witness ==
    /\ pc = "done"
    /\ Len(contrib) = 2
    /\ contrib[1].kind = "emitted"
    /\ outcome = Rejected([name |-> "UnknownEventNameError", details |-> UnknownRecord])
    /\ event.Records[2] = UnknownRecord

\* C6: an empty action list never reaches the client; once the records are
\* processed it yields {took: 0, errors: false, items: []}.
C6_EmptyShortCircuit ==
    /\ Len(acc.actions) = 0 => BulkCalls = <<>>
    /\ (result # None /\ Len(acc.actions) = 0) => result.result = EmptyResult
    /\ (pc = "record" /\ Len(acc.actions) = 0) => result = None
    /\ (pc = "done" /\ result # None /\ Len(acc.actions) = 0 /\ err = None
          /\ ~Has(options, "afterHook")) => outcome = Resolved(EmptyResult)
    /\ \A j \in 1..Len(calls) :
          (IsHookCall(calls[j], "afterHook") /\ Len(acc.actions) = 0) =>
              calls[j].result = EmptyResult

\* one record was dropped, the other's error swallowed: nothing to dispatch
C6_Witness ==
    /\ pc = "done"
    /\ outcome = Resolved(EmptyResult)
    /\ Len(contrib) = 2
    /\ contrib[1].kind = "dropped"
    /\ contrib[2].kind = "swallowed"
    /\ BulkCalls = <<>>

ConfiguredRetries ==
    IF Has(options, "retryOptions") THEN options.retryOptions.retries ELSE 0

\* C7: when every bulk call is rejected, the client is called retries + 1
\* times (once when retryOptions is absent) and the batch error is the error
\* of the last rejection.
C7_RetriesPlusOne ==
    /\ Len(BulkCalls) <= ConfiguredRetries + 1
    /\ (/\ Aborted
        /\ Len(BulkCalls) > 0
        /\ \A j \in 1..Len(BulkSettles) : BulkSettles[j].how = "rejected") =>
          /\ Len(BulkCalls) = ConfiguredRetries + 1
          /\ Len(BulkSettles) = Len(BulkCalls)
          /\ err = BulkSettles[Len(BulkSettles)].error
          /\ (pc = "done" /\ ~Has(options, "errorHook")) => outcome = Rejected(err)

\* a retried batch failed for good
C7_Witness ==
    /\ pc = "done"
    /\ Has(options, "retryOptions")
    /\ Len(BulkCalls) = MaxRetries + 1
    /\ outcome = Rejected(ClientError(MaxRetries + 1))

\* C8: every attempt sends the whole action list assembled from the records.
C8_SameBody ==
    \A j \in 1..Len(BulkCalls) :
        /\ BulkCalls[j].args.body = acc.actions
        /\ BulkCalls[j].args.body = ConcatPushed(Len(event.Records), "actions")
        /\ BulkCalls[j] = BulkCalls[1]

\* a retry has resent a list of several entries
C8_Witness ==
    /\ Len(BulkCalls) = 2
    /\ Len(BulkCalls[2].args.body) = 3
    /\ BulkCalls[2].args.body = acc.actions

IsResolvedBulk(c) == IsBulkSettle(c) /\ c.how = "resolved"
IsRejectedHook(c, hook) == c.fn = hook /\ c.phase = "settle" /\ c.how = "rejected"

\* C9: once a bulk call has resolved there is no further client call and no
\* recordErrorHook call, errorHook is called only for a failure of afterHook,
\* and the resolved result is handed on unchanged, errors: true included.
C9_ResolvedIsFinal ==
    \A k \in 1..Len(calls) :
        IsResolvedBulk(calls[k]) =>
            /\ \A j \in (k + 1)..Len(calls) :
                  /\ ~IsBulkCall(calls[j])
                  /\ calls[j].fn # "recordErrorHook"
                  /\ calls[j].fn = "errorHook" =>
                        \E m \in (k + 1)..(j - 1) : IsRejectedHook(calls[m], "afterHook")
            /\ \A j \in (k + 1)..Len(calls) :
                  IsHookCall(calls[j], "afterHook") => calls[j].result = calls[k].result
            /\ pc \notin {"bulkPending", "retryWait"}
            /\ result = [result |-> calls[k].result, meta |-> acc.meta]
            /\ (pc = "done" /\ ~Has(options, "afterHook")) =>
                  outcome = Resolved(calls[k].result)

\* a result with errors: true came back although retries were configured
C9_Witness ==
    /\ pc = "done"
    /\ Has(options, "retryOptions")
    /\ Len(BulkCalls) = 1
    /\ outcome = Resolved([took |-> 5, errors |-> TRUE, items |-> <<>>])

ErrorHookCalls == SelectSeq(calls, LAMBDA c : IsHookCall(c, "errorHook"))
LastCall == calls[Len(calls)]

\* C10: the batch error (event validation, an unswallowed record error, the
\* last bulk rejection) goes to errorHook(event, error) when configured and the
\* invocation resolves with what the hook returns; without errorHook the
\* invocation is rejected with that error.
C10_ErrorHook ==
    /\ (pc \notin {"start", "beforePending", "validate"} /\ ~EventIsValid(event)) =>
          err \in {ValidationError("event"), HookFailure("beforeHook")}
    /\ \A k \in 1..Len(contrib) :
          (contrib[k].kind = "failed" /\ ~Has(options, "recordErrorHook")) =>
              err = contrib[k].error
    /\ (Aborted /\ Len(BulkSettles) > 0
          /\ BulkSettles[Len(BulkSettles)].how = "rejected") =>
              err = BulkSettles[Len(BulkSettles)].error
    /\ ~Has(options, "errorHook") =>
          /\ ErrorHookCalls = <<>>
          /\ (pc = "done" /\ err # None) => outcome = Rejected(err)
    /\ (Has(options, "errorHook") /\ pc \in {"errorPending", "done"} /\ err # None) =>
          ErrorHookCalls = <<Call("errorHook", [event |-> event, error |-> err])>>
    /\ (Has(options, "errorHook") /\ pc = "done" /\ err # None
          /\ LastCall.how = "resolved") =>
              outcome = Resolved(LastCall.value)
    /\ err = None => ErrorHookCalls = <<>>

\* errorHook returned undefined for a rejected bulk call
C10_Witness ==
    /\ pc = "done"
    /\ Has(options, "errorHook")
    /\ err = ClientError(1)
    /\ outcome = Resolved(Undefined)

----------------------------------------------------------------------------

AfterHookCalls == SelectSeq(calls, LAMBDA c : IsHookCall(c, "afterHook"))
IsResolvedHook(c, hook) == c.fn = hook /\ c.phase = "settle" /\ c.how = "resolved"

\* C11: once the raw result exists (after a resolved dispatch or the empty
\* short-circuit) a configured afterHook is called exactly once, with the event,
\* the raw result and the metadata, and never on a path without a raw result;
\* the invocation resolves with the hook's return value when it is defined and
\* with the raw result when it is undefined or when no afterHook is configured.
C11_AfterHook ==
    /\ Len(AfterHookCalls) <= 1
    /\ (result = None \/ ~Has(options, "afterHook")) => Len(AfterHookCalls) = 0
    /\ (result # None /\ Has(options, "afterHook") /\ pc # "then") =>
          /\ Len(AfterHookCalls) = 1
          /\ AfterHookCalls[1].event = event
          /\ AfterHookCalls[1].result = result.result
          /\ AfterHookCalls[1].meta = acc.meta
    /\ \A k \in 1..Len(calls) :
          (IsResolvedHook(calls[k], "afterHook") /\ pc = "done") =>
              outcome = Resolved(IF calls[k].value = Undefined THEN result.result
                                 ELSE calls[k].value)
    /\ (pc = "done" /\ result # None /\ ~Has(options, "afterHook")) =>
          outcome = Resolved(result.result)

\* after a resolved dispatch the afterHook returned undefined and the invocation
\* resolved with the client's result
C11_Witness ==
    /\ pc = "done"
    /\ \E k \in 1..Len(calls) : IsResolvedBulk(calls[k])
    /\ \E k \in 1..Len(calls) :
          IsResolvedHook(calls[k], "afterHook") /\ calls[k].value = Undefined
    /\ outcome = Resolved(result.result)
    /\ Len(acc.meta) > 0

----------------------------------------------------------------------------
(* Descriptors of the records that were processed *)

ResolvesVersion == Has(options, "versionField") \/ Has(options, "versionResolver")

ParsedOf(c) == Unmarshall(RecordOf(c))

\* the version as resolved for the record of contribution c, before validation
VersionOf(c) == VersionValue(options, ParsedOf(c), CandidateDoc(options, ParsedOf(c)))

\* the descriptor contribution c pushed
DescriptorOf(c) ==
    LET a == c.pushed.actions[1]
    IN  IF Has(a, "index") THEN a.index ELSE a.delete

Emitted(c) == c.kind = "emitted"

\* C12: with a version v resolved, the delete descriptor of a REMOVE carries
\* version v + 1 and versionType 'external', and the index descriptor of an
\* INSERT or MODIFY carries version v and versionType 'external'.
C12_RemoveIncrements ==
    \A k \in 1..Len(contrib) :
        LET c == contrib[k]
        IN  (Emitted(c) /\ ResolvesVersion) =>
              /\ IsNumber(VersionOf(c))
              /\ DescriptorOf(c).versionType = Str("external")
              /\ RecordOf(c).eventName = "REMOVE" =>
                    /\ Has(c.pushed.actions[1], "delete")
                    /\ DescriptorOf(c).version = Num(VersionOf(c).n + 1)
              /\ RecordOf(c).eventName \in {"INSERT", "MODIFY"} =>
                    /\ Has(c.pushed.actions[1], "index")
                    /\ DescriptorOf(c).version = VersionOf(c)

\* the REMOVE whose old image has version 3 was dispatched as a delete with
\* version 4
C12_Witness ==
    /\ Len(contrib) = 1
    /\ Emitted(contrib[1])
    /\ RecordOf(contrib[1]) = OldFieldRecord
    /\ Has(options, "versionField")
    /\ Len(BulkCalls) = 1
    /\ BulkCalls[1].args.body[1].delete.version = Num(4)

\* C13: an emitted descriptor has version and versionType = 'external' when
\* versionField or versionResolver is configured, and has neither attribute
\* when neither option is configured.
C13_VersionIffConfigured ==
    \A k \in 1..Len(contrib) :
        LET c == contrib[k]
        IN  Emitted(c) =>
              /\ Has(DescriptorOf(c), "version") <=> ResolvesVersion
              /\ Has(DescriptorOf(c), "versionType") <=> ResolvesVersion
              /\ ResolvesVersion => DescriptorOf(c).versionType = Str("external")

\* a versionResolver read version 4 from the old image and the index
\* descriptor carries it
C13_Witness ==
    /\ Len(contrib) = 1
    /\ Emitted(contrib[1])
    /\ RecordOf(contrib[1]) = ImagesFieldRecord
    /\ Has(options, "versionResolver")
    /\ DescriptorOf(contrib[1]).version = Num(4)
    /\ DescriptorOf(contrib[1]).versionType = Str("external")

VersionAccepted(v) == IsNumber(v) /\ v.n >= 0

\* C14: a resolved version is accepted exactly when it is a number >= 0.  A
\* record is emitted only with an accepted version, and 0 is forwarded as 0; a
\* record whose resolved version is not accepted fails, and its
\* ValidationError is labelled with the versionField name, or with 'resolved
\* version' when the version came from versionResolver.
C14_VersionValidation ==
    \A k \in 1..Len(contrib) :
        LET c == contrib[k]
            v == VersionOf(c)
        IN  ResolvesVersion =>
              /\ Emitted(c) => VersionAccepted(v)
              /\ (Emitted(c) /\ v = Num(0) /\ RecordOf(c).eventName # "REMOVE") =>
                    DescriptorOf(c).version = Num(0)
              /\ (~IsError(v) /\ ~VersionAccepted(v)) =>
                    /\ c.error # None
                    /\ c.error.name \in {"ValidationError", "FieldNotFoundError"}
              /\ (c.error # None /\ c.error.name = "ValidationError") =>
                    /\ ~IsError(v) /\ ~VersionAccepted(v)
                    /\ Has(options, "versionField") =>
                          c.error = ValidationError(options.versionField)
                    /\ ~Has(options, "versionField") =>
                          c.error = ValidationError("resolved version")

\* version 0 of the new image went into the index descriptor
C14_Witness ==
    /\ Len(contrib) = 1
    /\ Emitted(contrib[1])
    /\ RecordOf(contrib[1]) = ImagesFieldRecord
    /\ Has(options, "versionField")
    /\ DescriptorOf(contrib[1]).version = Num(0)
    /\ Len(BulkCalls) = 1

----------------------------------------------------------------------------
(* Field resolution *)

\* the value a path has in the first of Keys, NewImage, OldImage that has it
FirstDefined(p, path) ==
    IF Has(p.Keys, path) THEN p.Keys[path]
    ELSE IF Has(p.NewImage, path) THEN p.NewImage[path]
    ELSE IF Has(p.OldImage, path) THEN p.OldImage[path]
    ELSE Undefined

Missing(p, path) ==
    ~Has(p.Keys, path) /\ ~Has(p.NewImage, path) /\ ~Has(p.OldImage, path)

\* C15: getField returns the value of the keys map when the path is there,
\* else that of the new image, else that of the old image; a falsy value of an
\* earlier map wins over a later map and a field of the old image alone is
\* resolved.  Seen on the parent attribute, which is getField(parentField).
C15_GetFieldOrder ==
    \A k \in 1..Len(contrib) :
        LET c == contrib[k]
            p == ParsedOf(c)
        IN  (Emitted(c) /\ Has(options, "parentField")) =>
              LET path == options.parentField
                  parent == DescriptorOf(c).parent
              IN  /\ Has(p.Keys, path) => parent = p.Keys[path]
                  /\ (~Has(p.Keys, path) /\ Has(p.NewImage, path)) =>
                         parent = p.NewImage[path]
                  /\ (~Has(p.Keys, path) /\ ~Has(p.NewImage, path)) =>
                         /\ Has(p.OldImage, path)
                         /\ parent = p.OldImage[path]

\* the blank value of the new image became the parent although the old image
\* has a non-blank one
C15_Witness ==
    /\ Len(contrib) = 1
    /\ Emitted(contrib[1])
    /\ RecordOf(contrib[1]) = BlankFieldRecord
    /\ Has(options, "parentField")
    /\ DescriptorOf(contrib[1]).parent = Str("")
    /\ ParsedOf(contrib[1]).OldImage.f = Str("fo")

PathSet(paths) == {PathList(paths)[k] : k \in 1..Len(PathList(paths))}

\* the paths the configuration has getField resolve for every record
ConfiguredPaths ==
    (IF Has(options, "idField") /\ ~Has(options, "idResolver")
     THEN PathSet(options.idField) ELSE {})
    \cup (IF Has(options, "indexField") /\ ~Has(options, "index")
          THEN PathSet(options.indexField) ELSE {})
    \cup (IF Has(options, "typeField") /\ ~Has(options, "type")
          THEN PathSet(options.typeField) ELSE {})
    \cup (IF Has(options, "parentField") THEN {options.parentField} ELSE {})
    \cup (IF Has(options, "versionField") /\ ~Has(options, "versionResolver")
          THEN {options.versionField} ELSE {})

IsFieldNotFound(e) == e # None /\ e.name = "FieldNotFoundError"

\* C16: a record fails with FieldNotFoundError exactly when one of the
\* configured paths (idField, indexField, typeField, parentField, versionField)
\* is in none of its three maps; the error names such a path and the parsed
\* record, and it is handled as a record error: given to recordErrorHook when
\* there is one, else it is the error of the batch and nothing is dispatched.
C16_FieldNotFound ==
    \A k \in 1..Len(contrib) :
        LET c == contrib[k]
            p == ParsedOf(c)
            missing == {path \in ConfiguredPaths : Missing(p, path)}
        IN  /\ IsFieldNotFound(c.error) <=> missing # {}
            /\ IsFieldNotFound(c.error) =>
                  /\ c.error.path \in missing
                  /\ c.error = FieldNotFoundError(p, c.error.path)
                  /\ c.pushed = NothingPushed
                  /\ IF Has(options, "recordErrorHook")
                     THEN /\ Len(RecordErrorHookCalls) = 1
                          /\ RecordErrorHookCalls[1].error = c.error
                     ELSE /\ err = c.error
                          /\ Len(BulkCalls) = 0

\* typeField names a field the record has in no map: the invocation failed with
\* the FieldNotFoundError of that path
C16_Witness ==
    /\ pc = "done"
    /\ Len(contrib) = 1
    /\ Has(options, "typeField")
    /\ RecordOf(contrib[1]) = NoFieldRecord
    /\ contrib[1].error = FieldNotFoundError(Unmarshall(NoFieldRecord), "f")
    /\ outcome = Rejected(contrib[1].error)

----------------------------------------------------------------------------
(* Descriptor attributes *)

ConfiguredSeparator == IF Has(options, "separator") THEN options.separator ELSE "."

\* C17: with idField a single path the _id is the getField value of the path;
\* with a list it is the string of the getField values in list order with the
\* separator between them, nothing between them when the separator is empty;
\* when a listed path is in no map the record fails with FieldNotFoundError.
C17_AssembleField ==
    \A k \in 1..Len(contrib) :
        LET c == contrib[k]
            p == ParsedOf(c)
        IN  Has(options, "idField") =>
              /\ (Emitted(c) /\ ~IsArray(options.idField)) =>
                    DescriptorOf(c)._id = FirstDefined(p, options.idField.path)
              /\ (Emitted(c) /\ IsArray(options.idField)) =>
                    LET paths == options.idField.paths
                    IN  /\ Len(paths) = 2
                        /\ DescriptorOf(c)._id =
                              Str(JsToString(FirstDefined(p, paths[1]))
                                  \o ConfiguredSeparator
                                  \o JsToString(FirstDefined(p, paths[2])))
              /\ (\E path \in PathSet(options.idField) : Missing(p, path)) =>
                    /\ IsFieldNotFound(c.error)
                    /\ c.pushed = NothingPushed

\* idField lists "f" and "id", the separator is empty: the _id is "fk" and "k1"
\* run together
C17_Witness ==
    /\ Len(contrib) = 1
    /\ Emitted(contrib[1])
    /\ RecordOf(contrib[1]) = KeysFieldRecord
    /\ Has(options, "idField") /\ IsArray(options.idField)
    /\ Has(options, "separator") /\ options.separator = ""
    /\ DescriptorOf(contrib[1])._id = Str("fkk1")

\* the values of the keys map in key order
KeyValues(p) ==
    [k \in 1..Len(ObjectKeys(p.Keys)) |-> p.Keys[ObjectKeys(p.Keys)[k]]]

\* C18: the _id is what idResolver(document, oldImage) returns when idResolver
\* is configured; else the assembled idField when idField is configured; else
\* the values of all keys of the keys map, in key order, joined with the
\* separator ('.' when none is configured).
C18_IdPrecedence ==
    \A k \in 1..Len(contrib) :
        LET c == contrib[k]
            p == ParsedOf(c)
            id == DescriptorOf(c)._id
        IN  Emitted(c) =>
              /\ Has(options, "idResolver") =>
                    id = Prop(IF options.idResolver.arg = "doc"
                              THEN CandidateDoc(options, p) ELSE p.OldImage,
                              options.idResolver.field)
              /\ (~Has(options, "idResolver") /\ Has(options, "idField")) =>
                    id = AssembleField(p, options.idField, ConfiguredSeparator)
              /\ (~Has(options, "idResolver") /\ ~Has(options, "idField")) =>
                    id = Str(Join(KeyValues(p), ConfiguredSeparator))

\* an idResolver reading "f" of the old image gave the _id "fo", not the key
C18_Witness ==
    /\ Len(contrib) = 1
    /\ Emitted(contrib[1])
    /\ RecordOf(contrib[1]) = ImagesFieldRecord
    /\ Has(options, "idResolver") /\ options.idResolver.arg = "old"
    /\ DescriptorOf(contrib[1])._id = Str("fo")
    /\ Len(BulkCalls) = 1

\* C19: the _index is the index literal when index is configured, and else
\* indexPrefix ('' when not configured) followed by the resolved indexField;
\* with index configured no record fails for a field of the index.
C19_Index ==
    \A k \in 1..Len(contrib) :
        LET c == contrib[k]
            p == ParsedOf(c)
        IN  /\ (Emitted(c) /\ Has(options, "index")) =>
                  DescriptorOf(c)._index = Str(options.index)
            /\ (Emitted(c) /\ ~Has(options, "index")) =>
                  DescriptorOf(c)._index =
                      Str((IF Has(options, "indexPrefix") THEN options.indexPrefix
                           ELSE "")
                          \o JsToString(FirstDefined(p, options.indexField.path)))
            /\ (Has(options, "index") /\ ConfiguredPaths = {}) =>
                  ~IsFieldNotFound(c.error)

\* indexField resolves to the number 0 and indexPrefix is "p-": the index is
\* "p-0"
C19_Witness ==
    /\ Len(contrib) = 1
    /\ Emitted(contrib[1])
    /\ RecordOf(contrib[1]) = ZeroFieldRecord
    /\ Has(options, "indexPrefix")
    /\ DescriptorOf(contrib[1])._index = Str("p-0")

\* C20: the _type is the type literal when type is configured, else the
\* resolved typeField when that value is not blank; when it is blank the
\* descriptor has no _type attribute, and a _type that is present is never
\* blank.
C20_Type ==
    \A k \in 1..Len(contrib) :
        LET c == contrib[k]
            p == ParsedOf(c)
            desc == DescriptorOf(c)
        IN  Emitted(c) =>
              /\ Has(options, "type") =>
                    Has(desc, "_type") /\ desc._type = Str(options.type)
              /\ (~Has(options, "type") /\ Has(options, "typeField")) =>
                    LET v == FirstDefined(p, options.typeField.path)
                    IN  IF Truthy(v)
                        THEN Has(desc, "_type") /\ desc._type = v
                        ELSE ~Has(desc, "_type")
              /\ (~Has(options, "type") /\ ~Has(options, "typeField")) =>
                    ~Has(desc, "_type")
              /\ Has(desc, "_type") => Truthy(desc._type)

\* typeField resolves to the empty string: the descriptor dispatched has no
\* _type
C20_Witness ==
    /\ Len(contrib) = 1
    /\ Emitted(contrib[1])
    /\ RecordOf(contrib[1]) = BlankFieldRecord
    /\ Has(options, "typeField")
    /\ Len(BulkCalls) = 1
    /\ ~Has(BulkCalls[1].args.body[1].index, "_type")

----------------------------------------------------------------------------
(* Dropped records *)

Dropped == SelectSeq(contrib, LAMBDA c : c.kind = "dropped")

FalsyTransforms ==
    SelectSeq(calls, LAMBDA c : IsResolvedHook(c, "transformRecordHook")
                                 /\ ~Truthy(c.value))

\* C21: each falsy return value of transformRecordHook drops its record: the
\* record pushes no action and no metadata entry and raises no error, whatever
\* its event name, and recordErrorHook is called for errored records only.
C21_FalsyDrops ==
    /\ Len(FalsyTransforms) = Len(Dropped)
    /\ \A k \in 1..Len(contrib) :
          contrib[k].kind = "dropped" =>
              /\ ~Truthy(contrib[k].doc)
              /\ contrib[k].pushed = NothingPushed
              /\ contrib[k].error = None
    /\ Len(RecordErrorHookCalls) =
          IF Has(options, "recordErrorHook")
          THEN Len(Errored) + (IF pc = "recordErrorPending" THEN 1 ELSE 0)
          ELSE 0
    /\ acc.actions = ConcatPushed(Len(contrib), "actions")
    /\ acc.meta = ConcatPushed(Len(contrib), "meta")
    /\ (pc = "record" /\ \A k \in 1..Len(contrib) : contrib[k].error = None) =>
          err = None

\* a MODIFY and a REMOVE were both dropped: nothing was dispatched, no hook for
\* record errors was called and the invocation resolved with the empty result
C21_Witness ==
    /\ pc = "done"
    /\ Len(contrib) = 2
    /\ contrib[1].kind = "dropped" /\ RecordOf(contrib[1]).eventName = "MODIFY"
    /\ contrib[2].kind = "dropped" /\ RecordOf(contrib[2]).eventName = "REMOVE"
    /\ Has(options, "recordErrorHook")
    /\ Len(RecordErrorHookCalls) = 0
    /\ Len(BulkCalls) = 0
    /\ outcome = Resolved(EmptyResult)

----------------------------------------------------------------------------
(* Construction-time validation of the options *)

Constructed == pc # "construct"

Both(a, b) == Has(options, a) /\ Has(options, b)
Neither(a, b) == ~Has(options, a) /\ ~Has(options, b)
ExactlyOne(a, b) == Has(options, a) # Has(options, b)

ThrewValidationError ==
    /\ pc = "thrown"
    /\ err.name = "ValidationError"
    /\ err.label = "options"

Reports(clause) == ThrewValidationError /\ clause \in err.details

PrefixMisused ==
    Has(options, "indexPrefix") /\ (~Has(options, "indexField") \/ Has(options, "index"))

HasBulkBody ==
    /\ Has(options, "elasticsearch")
    /\ Has(options.elasticsearch, "bulk")
    /\ Has(options.elasticsearch.bulk, "body")

\* C22: construction succeeds only if exactly one of index and indexField and
\* exactly one of type and typeField is configured; both or neither of a pair
\* throws a ValidationError that names the pair.
C22_XorPairs ==
    Constructed =>
        /\ pc # "thrown" => ExactlyOne("index", "indexField") /\ ExactlyOne("type", "typeField")
        /\ Both("index", "indexField")
             <=> Reports("conflict between exclusive peers [index, indexField]")
        /\ Neither("index", "indexField")
             <=> Reports("must contain at least one of [index, indexField]")
        /\ Both("type", "typeField")
             <=> Reports("conflict between exclusive peers [type, typeField]")
        /\ Neither("type", "typeField")
             <=> Reports("must contain at least one of [type, typeField]")

C22_Witness ==
    /\ ThrewValidationError
    /\ Both("index", "indexField")
    /\ Neither("type", "typeField")

\* the constraints other than the two optional exclusive pairs are met
ValidButForOxor ==
    /\ ExactlyOne("index", "indexField")
    /\ ExactlyOne("type", "typeField")
    /\ ~PrefixMisused
    /\ ~Has(options, "junk")
    /\ ~HasBulkBody
    /\ Has(options, "elasticsearch")

\* C23: idField with idResolver, or versionField with versionResolver, throws
\* a ValidationError that names the pair; a configuration with neither member
\* of a pair is not rejected for it.
C23_OxorPairs ==
    Constructed =>
        /\ Both("idField", "idResolver")
             <=> Reports("conflict between optional exclusive peers [idField, idResolver]")
        /\ Both("versionField", "versionResolver")
             <=> Reports("conflict between optional exclusive peers [versionField, versionResolver]")
        /\ ValidButForOxor =>
             (pc = "thrown" <=> \/ Both("idField", "idResolver")
                                \/ Both("versionField", "versionResolver"))

C23_Witness ==
    /\ ThrewValidationError
    /\ ValidButForOxor
    /\ Both("idField", "idResolver")
    /\ Neither("versionField", "versionResolver")

\* the constraints that do not name indexPrefix are met
ValidButForPrefix ==
    /\ ExactlyOne("index", "indexField")
    /\ ExactlyOne("type", "typeField")
    /\ ~Both("idField", "idResolver")
    /\ ~Both("versionField", "versionResolver")
    /\ ~Has(options, "junk")
    /\ ~HasBulkBody
    /\ Has(options, "elasticsearch")

\* C24: indexPrefix without indexField, and indexPrefix with index, throw a
\* ValidationError that says so; indexPrefix with indexField and without index
\* is not rejected.
C24_IndexPrefix ==
    Constructed =>
        /\ PrefixMisused => ThrewValidationError
        /\ (Has(options, "indexPrefix") /\ ~Has(options, "indexField"))
             <=> Reports("indexPrefix missing required peer indexField")
        /\ Both("indexPrefix", "index")
             <=> Reports("index conflict with forbidden peer indexPrefix")
        /\ (ValidButForPrefix /\ Has(options, "indexPrefix")) =>
             (pc = "thrown" <=> PrefixMisused)

C24_Witness ==
    /\ ThrewValidationError
    /\ Both("indexPrefix", "index")
    /\ ~Has(options, "indexField")
    /\ ExactlyOne("type", "typeField")

Count(b) == IF b THEN 1 ELSE 0

\* how many constraints of the schema the options violate
ViolatedConstraints ==
    Count(~ExactlyOne("index", "indexField"))
    + Count(~ExactlyOne("type", "typeField"))
    + Count(Both("idField", "idResolver"))
    + Count(Both("versionField", "versionResolver"))
    + Count(Has(options, "indexPrefix") /\ ~Has(options, "indexField"))
    + Count(Both("indexPrefix", "index"))
    + Count(Has(options, "junk"))
    + Count(HasBulkBody)

\* C25: the ValidationError of a construction reports one clause for each
\* violated constraint; options with indexPrefix alone report three: index or
\* indexField missing, type or typeField missing, indexPrefix without its peer.
C25_AllClauses ==
    Constructed =>
        /\ ViolatedConstraints > 0 <=> ThrewValidationError
        /\ ThrewValidationError => Cardinality(err.details) = ViolatedConstraints
        /\ options = [indexPrefix |-> "p-"] =>
             /\ ThrewValidationError
             /\ err.details = { "must contain at least one of [index, indexField]",
                                "must contain at least one of [type, typeField]",
                                "indexPrefix missing required peer indexField" }

C25_Witness ==
    /\ ThrewValidationError
    /\ options = [indexPrefix |-> "p-"]
    /\ Cardinality(err.details) = 3

\* C26: the options are validated once, in the construction step; an invalid
\* configuration, the missing options object included, ends in a thrown
\* ValidationError and has no invocation, no hook call and no client call ever;
\* invocations of the handler validate nothing again.
C26_ValidatedOnce ==
    /\ validations = Count(Constructed)
    /\ (Constructed /\ ViolatedConstraints > 0) =>
         /\ ThrewValidationError
         /\ invocations = 0
         /\ calls = <<>>
         /\ contrib = <<>>
         /\ outcome = Pending
    /\ invocations > 0 => ViolatedConstraints = 0

C26_Witness ==
    /\ ThrewValidationError
    /\ options = EmptyObject
    /\ validations = 1
    /\ invocations = 0

----------------------------------------------------------------------------
(* Event validation *)

RecordLacksShape(record) ==
    \/ ~Has(record, "eventName")
    \/ ~Has(record, "dynamodb")
    \/ ~Has(record.dynamodb, "Keys")

LacksShape(ev) ==
    \/ ~Has(ev, "Records")
    \/ \E k \in 1..Len(ev.Records) : RecordLacksShape(ev.Records[k])

BeforeHookFailed == \E k \in 1..Len(calls) : IsRejectedHook(calls[k], "beforeHook")

\* the event has been validated
Validated == pc \notin {"start", "beforePending", "validate"} /\ ~BeforeHookFailed

\* C27: an event without Records, or with a record without eventName, dynamodb
\* or dynamodb.Keys, is refused with a ValidationError when it is validated: no
\* record is processed, transformRecordHook, recordErrorHook and the client are
\* never called, and the error goes to errorHook when configured and is the
\* rejection of the invocation otherwise.
C27_InvalidEvent ==
    LacksShape(event) =>
        /\ pc \in {"start", "beforePending", "validate", "catch", "errorPending", "done"}
        /\ contrib = <<>>
        /\ acc = [actions |-> <<>>, meta |-> <<>>]
        /\ \A k \in 1..Len(calls) :
              calls[k].fn \notin {"transformRecordHook", "recordErrorHook", "bulk"}
        /\ Validated =>
              /\ err = ValidationError("event")
              /\ IF Has(options, "errorHook")
                 THEN pc \in {"errorPending", "done"} =>
                        ErrorHookCalls = <<Call("errorHook",
                            [event |-> event, error |-> ValidationError("event")])>>
                 ELSE pc = "done" => outcome = Rejected(ValidationError("event"))

\* the second record has no Keys; the first one is not processed either
C27_Witness ==
    /\ event = [Records |-> <<InsertRecord, NoKeysRecord>>]
    /\ Validated
    /\ pc = "done"
    /\ outcome = Rejected(ValidationError("event"))
    /\ contrib = <<>>

KnownOnly(obj, keys) == Restrict(obj, DOMAIN obj \cap keys)

\* the record without the fields schemas.EVENT does not name
StripRecord(record) ==
    Spread(KnownOnly(record, {"eventName", "dynamodb"}),
           [dynamodb |-> KnownOnly(record.dynamodb, {"Keys", "NewImage", "OldImage"})])

HasUnknownFields(ev) ==
    /\ Has(ev, "junk")
    /\ Has(ev, "Records")
    /\ \A k \in 1..Len(ev.Records) :
          /\ ~RecordLacksShape(ev.Records[k])
          /\ Has(ev.Records[k], "junk")
          /\ Has(ev.Records[k].dynamodb, "junk")

\* what the record of contribution c pushes when it has no unknown fields and
\* the document tested by if (doc) is the same
PushedWithoutUnknown(c) ==
    LET record == StripRecord(RecordOf(c))
        r == ResolveRecord(options, record)
    IN  IF IsError(r) THEN r
        ELSE EmitRecord(record, r.parsedRecord, r.desc, c.doc)

\* C28: an event with unknown fields at the top level, in its records and in
\* their dynamodb objects passes validation, and each of its records pushes
\* the actions the record without those fields pushes, so that the body of
\* every bulk call is the same.
C28_UnknownFields ==
    HasUnknownFields(event) =>
        /\ err # ValidationError("event")
        /\ \A k \in 1..Len(event.Records) :
              LET with == ResolveRecord(options, event.Records[k])
                  without == ResolveRecord(options, StripRecord(event.Records[k]))
              IN  /\ IsError(with) <=> IsError(without)
                  /\ ~IsError(with) => with.desc = without.desc /\ with.doc = without.doc
        /\ \A k \in 1..Len(contrib) :
              LET c == contrib[k]
                  p == PushedWithoutUnknown(c)
              IN  IF c.kind \in {"emitted", "dropped"}
                  THEN ~IsError(p) /\ c.pushed.actions = p.actions
                  ELSE c.pushed.actions = <<>>

C28_Witness ==
    /\ HasUnknownFields(event)
    /\ Len(event.Records) = 2
    /\ Len(contrib) = 2
    /\ Len(BulkCalls) > 0
    /\ Emitted(contrib[1]) /\ Emitted(contrib[2])
    /\ BulkCalls[1].args.body = PushedWithoutUnknown(contrib[1]).actions
                                \o PushedWithoutUnknown(contrib[2]).actions

----------------------------------------------------------------------------
(* The metadata list *)

EmittedContributions == SelectSeq(contrib, Emitted)

\* the record with its three maps replaced by their decoded form
MergedRecord(record) ==
    [k \in DOMAIN record |->
        IF k = "dynamodb"
        THEN [f \in DOMAIN record.dynamodb \cup {"Keys", "NewImage", "OldImage"} |->
                IF f \in {"Keys", "NewImage", "OldImage"}
                THEN IF Has(record.dynamodb, f)
                     THEN UnmarshallMap(record.dynamodb[f]) ELSE EmptyObject
                ELSE record.dynamodb[f]]
        ELSE record[k]]

\* C30: acc.meta has one entry for each record that pushed an action, in
\* record order, and none for dropped records and swallowed errors; it is never
\* longer than the record list; an entry holds the record merged with its
\* decoded maps, the pushed action and the document.
C30_Meta ==
    /\ Len(acc.meta) = Len(EmittedContributions)
    /\ Len(contrib) > 0 => Len(acc.meta) <= Len(event.Records)
    /\ \A k \in 1..Len(contrib) :
          Len(contrib[k].pushed.meta) = IF Emitted(contrib[k]) THEN 1 ELSE 0
    /\ \A k \in 1..Len(EmittedContributions) :
          LET c == EmittedContributions[k]
          IN  /\ k <= Len(acc.meta)
              /\ acc.meta[k].event = MergedRecord(RecordOf(c))
              /\ acc.meta[k].action = c.pushed.actions[1]
              /\ acc.meta[k].document = c.doc
              /\ DOMAIN acc.meta[k] = {"event", "action", "document"}

\* a dropped record between two emitted ones would need three records; here a
\* swallowed error comes first and the entry is that of the second record
C30_Witness ==
    /\ Len(contrib) = 2
    /\ contrib[1].kind = "swallowed"
    /\ Emitted(contrib[2])
    /\ Len(acc.meta) = 1
    /\ acc.meta[1].event = MergedRecord(event.Records[2])
    /\ acc.meta[1].event # event.Records[2]

----------------------------------------------------------------------------
(* The argument of esclient.bulk *)

ConfiguredBulk ==
    IF Has(options.elasticsearch, "bulk") THEN options.elasticsearch.bulk
    ELSE EmptyObject

\* C29: the argument of every bulk call is the configured bulk options, each
\* unchanged, plus body, which is the action list of the invocation; bulk
\* options with a body of their own are refused at construction, so that no
\* call carries a configured body.
C29_BulkArgs ==
    /\ \A k \in 1..Len(calls) :
          IsBulkCall(calls[k]) =>
              /\ DOMAIN calls[k].args = DOMAIN ConfiguredBulk \cup {"body"}
              /\ \A f \in DOMAIN ConfiguredBulk : calls[k].args[f] = ConfiguredBulk[f]
              /\ calls[k].args.body = acc.actions
              /\ ~Has(ConfiguredBulk, "body")
    /\ (Constructed /\ HasBulkBody) =>
          /\ Reports("elasticsearch.bulk.body is not allowed")
          /\ calls = <<>>

\* the pipeline was constructed, and a second invocation of it dispatches
C29_Witness ==
    /\ invocations = 2
    /\ Len(BulkCalls) > 0
    /\ Len(acc.actions) > 0
    /\ BulkCalls[1].args = [refresh |-> Str("wait_for"), body |-> acc.actions]

----------------------------------------------------------------------------
(* The phases of one invocation *)

Phase(p) ==
    CASE p \in {"start", "beforePending"} -> "before-hook"
      [] p = "validate" -> "validation"
      [] p \in {"record", "transformPending", "recordErrorPending"} -> "transformation"
      [] p \in {"bulkPending", "retryWait"} -> "dispatch"
      [] p \in {"then", "afterPending"} -> "after-hook"
      [] p \in {"catch", "errorPending"} -> "error"
      [] p = "done" -> "completion"

PhaseOrder ==
    { <<"before-hook", "validation">>, <<"validation", "transformation">>,
      <<"transformation", "dispatch">>, <<"transformation", "after-hook">>,
      <<"dispatch", "after-hook">>, <<"after-hook", "completion">>,
      <<"error", "completion">> }
    \cup { <<ph, "error">> : ph \in {"before-hook", "validation", "transformation",
                                     "dispatch", "after-hook"} }

PhaseStep ==
    \/ Phase(pc') = Phase(pc)
    \/ /\ <<Phase(pc), Phase(pc')>> \in PhaseOrder
       /\ (Phase(pc) = "transformation" /\ Phase(pc') = "dispatch") => acc.actions # <<>>
       /\ (Phase(pc) = "transformation" /\ Phase(pc') = "after-hook") => acc.actions = <<>>
       /\ (Phase(pc) = "error" /\ pc' = "done" /\ pc = "catch") => outcome' = Rejected(err)
       /\ (Phase(pc) = "after-hook" /\ pc' = "done" /\ pc = "then") =>
              ~Has(options, "afterHook")

AllProcessed == idx > Len(event.Records) /\ Len(contrib) = Len(event.Records)

PhaseInvariant ==
    /\ Phase(pc) = "dispatch" => acc.actions # <<>>
    /\ BulkCalls # <<>> => AllProcessed /\ acc.actions # <<>>
    /\ pc = "afterPending" => Has(options, "afterHook")
    /\ pc = "errorPending" => Has(options, "errorHook")
    /\ AfterHookCalls # <<>> =>
          /\ AllProcessed
          /\ \/ BulkCalls = <<>> /\ acc.actions = <<>>
             \/ /\ BulkSettles # <<>>
                /\ Len(BulkSettles) = Len(BulkCalls)
                /\ BulkSettles[Len(BulkSettles)].how = "resolved"
    /\ \A k \in 1..Len(calls) :
          IsHookCall(calls[k], "errorHook") =>
              \A j \in (k + 1)..Len(calls) : calls[j].fn = "errorHook"

\* C32: the phases of an invocation follow one another as before-hook,
\* validation, transformation, dispatch (with its retries, only for a non-empty
\* action list), after-hook (only when configured), completion; the client is
\* called only after all records are processed, afterHook only after the
\* dispatch resolved or was skipped, and an error leads from any phase to
\* errorHook (when configured) and completion only.
C32_PhaseOrder == []PhaseInvariant /\ [][PhaseStep]_vars

\* a retried dispatch followed by afterHook
C32_Witness ==
    /\ pc = "done"
    /\ Len(BulkCalls) = 2
    /\ AfterHookCalls # <<>>
    /\ outcome.status = "resolved"

----------------------------------------------------------------------------
(* Suspension points *)

\* where the invocation waits for a call of fn to settle
PendingPc(fn) ==
    CASE fn = "beforeHook" -> "beforePending"
      [] fn = "transformRecordHook" -> "transformPending"
      [] fn = "recordErrorHook" -> "recordErrorPending"
      [] fn = "bulk" -> "bulkPending"
      [] fn = "afterHook" -> "afterPending"
      [] fn = "errorHook" -> "errorPending"

CallsOf(fn) == SelectSeq(calls, LAMBDA c : c.fn = fn /\ c.phase = "call")

\* C33: a call that suspends has settled before anything else happens: every
\* call in the trace is directly followed by its own settlement or is the one
\* the invocation is waiting for; while beforeHook is pending nothing is
\* validated or processed; while a hook of record i is pending no later record
\* has been touched, so at most one record is in flight.
C33_Awaited ==
    /\ \A k \in 1..Len(calls) :
          IF calls[k].phase = "call"
          THEN IF k < Len(calls)
               THEN calls[k + 1].phase = "settle" /\ calls[k + 1].fn = calls[k].fn
               ELSE pc = PendingPc(calls[k].fn)
          ELSE k > 1 /\ calls[k - 1].phase = "call" /\ calls[k - 1].fn = calls[k].fn
    /\ pc \in {"start", "beforePending"} =>
          /\ idx = 1 /\ contrib = <<>> /\ err = None
          /\ acc = [actions |-> <<>>, meta |-> <<>>]
          /\ Len(calls) = IF pc = "beforePending" THEN 1 ELSE 0
    /\ pc \in {"transformPending", "recordErrorPending"} =>
          /\ idx <= Len(event.Records)
          /\ Len(contrib) = idx - 1
          /\ \A k \in 1..Len(contrib) : contrib[k].record < idx
    /\ Len(CallsOf("transformRecordHook")) <=
          Len(contrib) + (IF pc \in {"transformPending", "recordErrorPending"}
                          THEN 1 ELSE 0)
    /\ Len(CallsOf("recordErrorHook")) <=
          Len(contrib) + (IF pc = "recordErrorPending" THEN 1 ELSE 0)

\* the hook of the second record is pending, the first record is finished and
\* its own hook call has settled
C33_Witness ==
    /\ pc = "transformPending"
    /\ idx = 2
    /\ Len(contrib) = 1
    /\ Len(CallsOf("transformRecordHook")) = 2
    /\ Len(CallsOf("beforeHook")) = 1

----------------------------------------------------------------------------
(* A failing recordErrorHook *)

RecordErrorHookFailed ==
    \E k \in 1..Len(calls) : IsRejectedHook(calls[k], "recordErrorHook")

\* C34: when recordErrorHook throws or rejects, the record loop stops at that
\* record: no later record is processed, the client is never called, and the
\* hook's failure is the batch error, which goes to errorHook when configured
\* and rejects the invocation otherwise.
C34_HookFailureAborts ==
    RecordErrorHookFailed =>
        /\ pc \in {"catch", "errorPending", "done"}
        /\ err = HookFailure("recordErrorHook")
        /\ Len(contrib) = idx
        /\ contrib[idx].kind = "failed"
        /\ contrib[idx].record = idx
        /\ BulkCalls = <<>>
        /\ AfterHookCalls = <<>>
        /\ \A k \in 1..Len(calls) :
              IsRejectedHook(calls[k], "recordErrorHook") =>
                  \A j \in (k + 1)..Len(calls) : calls[j].fn = "errorHook"
        /\ IF Has(options, "errorHook")
           THEN pc \in {"errorPending", "done"} =>
                  ErrorHookCalls = <<Call("errorHook",
                      [event |-> event, error |-> HookFailure("recordErrorHook")])>>
           ELSE pc = "done" => outcome = Rejected(HookFailure("recordErrorHook"))

\* the hook fails on the first of two records; the second is never processed
C34_Witness ==
    /\ RecordErrorHookFailed
    /\ pc = "done"
    /\ Len(event.Records) = 2
    /\ Len(contrib) = 1
    /\ ~Has(options, "errorHook")
    /\ outcome = Rejected(HookFailure("recordErrorHook"))

----------------------------------------------------------------------------
(* The document of a metadata entry *)

\* C35: the metadata entry of a REMOVE record has document undefined, the one
\* of an INSERT or MODIFY record has the document that was queued.
C35_RemoveDocumentUndefined ==
    \A k \in 1..Len(contrib) :
        LET c == contrib[k]
        IN  Emitted(c) =>
              IF RecordOf(c).eventName = "REMOVE"
              THEN c.pushed.meta[1].document = Undefined
              ELSE c.pushed.meta[1].document = c.pushed.actions[2]

----------------------------------------------------------------------------
(* The shape of the request body *)

IsIndexEntry(e) == DOMAIN e = {"index"}
IsDeleteEntry(e) == DOMAIN e = {"delete"}
IsActionEntry(e) == IsIndexEntry(e) \/ IsDeleteEntry(e)

\* body is a sequence of groups: an index entry and one document, or a delete
\* entry alone
RECURSIVE WellGrouped(_)
WellGrouped(body) ==
    IF body = <<>> THEN TRUE
    ELSE IF IsIndexEntry(body[1])
    THEN /\ Len(body) >= 2
         /\ ~IsActionEntry(body[2])
         /\ WellGrouped(SubSeq(body, 3, Len(body)))
    ELSE IF IsDeleteEntry(body[1])
    THEN WellGrouped(Tail(body))
    ELSE FALSE

NumIndex(body) == Len(SelectSeq(body, IsIndexEntry))
NumDelete(body) == Len(SelectSeq(body, IsDeleteEntry))

\* C36: in the body of every bulk call each index entry is directly followed
\* by one document and a delete entry by none; the body has two entries for
\* each index action and one for each delete action, the metadata list one
\* entry for each action, and the body is never empty.
C36_BodyShape ==
    \A k \in 1..Len(calls) :
        IsBulkCall(calls[k]) =>
            LET body == calls[k].args.body
            IN  /\ body # <<>>
                /\ WellGrouped(body)
                /\ Len(body) = 2 * NumIndex(body) + NumDelete(body)
                /\ Len(acc.meta) = NumIndex(body) + NumDelete(body)
                /\ \A j \in 1..Len(acc.meta) : IsActionEntry(acc.meta[j].action)

\* a bulk call whose body has an index group and a delete
C36_Witness ==
    /\ Len(BulkCalls) > 0
    /\ NumIndex(BulkCalls[1].args.body) = 1
    /\ NumDelete(BulkCalls[1].args.body) = 1
    /\ Len(BulkCalls[1].args.body) = 3
    /\ Len(acc.meta) = 2

----------------------------------------------------------------------------
(* transformRecordHook and the descriptor *)

TransformCalls == CallsOf("transformRecordHook")

TransformSettles ==
    SelectSeq(calls, LAMBDA c : c.fn = "transformRecordHook" /\ c.phase = "settle")

\* the descriptor attributes as the record alone gives them
DescriptorFromRecord(c) ==
    LET p == ParsedOf(c)
        candidate == CandidateDoc(options, p)
        id == IF Has(options, "idResolver")
              THEN Prop(IF options.idResolver.arg = "doc" THEN candidate ELSE p.OldImage,
                        options.idResolver.field)
              ELSE IF Has(options, "idField")
              THEN AssembleField(p, options.idField, ConfiguredSeparator)
              ELSE Str(Join(KeyValues(p), ConfiguredSeparator))
        version == IF Has(options, "versionResolver")
                   THEN Prop(IF options.versionResolver.arg = "doc"
                             THEN candidate ELSE p.OldImage,
                             options.versionResolver.field)
                   ELSE IF Has(options, "versionField")
                   THEN GetField(p, options.versionField)
                   ELSE Undefined
    IN  [ id      |-> id,
          version |-> IF version # Undefined /\ RecordOf(c).eventName = "REMOVE"
                      THEN Num(version.n + 1) ELSE version,
          parent  |-> IF Has(options, "parentField")
                      THEN GetField(p, options.parentField) ELSE Undefined,
          index   |-> ResolveIndex(options, p),
          type    |-> ResolveType(options, p) ]

\* C37: with transformRecordHook configured, the hook is called with the
\* candidate document, and whatever it returns the descriptor's _id, _index,
\* _type, parent and version are those the record and the candidate document
\* give; the return value is the document that is queued and reported.
C37_HookKeepsDescriptor ==
    Has(options, "transformRecordHook") =>
        /\ \A k \in 1..Len(TransformCalls) :
              TransformCalls[k].doc = CandidateDoc(options, Unmarshall(event.Records[k]))
        /\ \A k \in 1..Len(contrib) :
              LET c == contrib[k]
                  d == DescriptorOf(c)
                  e == DescriptorFromRecord(c)
              IN  Emitted(c) =>
                    /\ d._id = e.id
                    /\ d._index = e.index
                    /\ Prop(d, "_type") = (IF Truthy(e.type) THEN e.type ELSE Undefined)
                    /\ Prop(d, "parent") = e.parent
                    /\ Prop(d, "version") = e.version
                    /\ c.doc = TransformSettles[k].value
                    /\ c.pushed.meta[1].document = c.doc
                    /\ Has(c.pushed.actions[1], "index") => c.pushed.actions[2] = c.doc

\* the hook replaced a document whose field "f" the idResolver had read
C37_Witness ==
    /\ Has(options, "transformRecordHook")
    /\ Has(options, "idResolver") /\ options.idResolver.arg = "doc"
    /\ Len(contrib) = 1
    /\ Emitted(contrib[1])
    /\ DescriptorOf(contrib[1])._id = Str("fn")
    /\ contrib[1].doc = [someProperty |-> Str("otherValue")]
    /\ contrib[1].pushed.actions[2] = [someProperty |-> Str("otherValue")]

----------------------------------------------------------------------------
(* Unknown event names and falsy documents *)

IsUnknownName(e) == IsError(e) /\ e.name = "UnknownEventNameError"

UnknownNameCalls ==
    SelectSeq(RecordErrorHookCalls, LAMBDA c : IsUnknownName(c.error))

UnknownNameErrors == SelectSeq(contrib, LAMBDA c : IsUnknownName(c.error))

\* C38: a record with an unknown event name raises UnknownEventNameError only
\* when its document is truthy; when transformRecordHook returned a falsy
\* value the record is dropped without an error and without a recordErrorHook
\* call.
C38_UnknownNameDropped ==
    /\ \A k \in 1..Len(contrib) :
          LET c == contrib[k]
          IN  ~IsKnownEventName(RecordOf(c).eventName) =>
                /\ IsUnknownName(c.error) <=> Truthy(c.doc)
                /\ (c.error = None) <=> (c.kind = "dropped")
                /\ c.kind = "dropped" =>
                      /\ ~Truthy(c.doc)
                      /\ c.pushed = NothingPushed
                      /\ Has(options, "transformRecordHook")
                      /\ \E j \in 1..Len(TransformSettles) :
                            /\ TransformSettles[j].how = "resolved"
                            /\ TransformSettles[j].value = c.doc
                /\ c.pushed = NothingPushed
    /\ Len(UnknownNameCalls) =
          IF Has(options, "recordErrorHook")
          THEN Len(UnknownNameErrors)
               + (IF pc = "recordErrorPending" /\ IsUnknownName(cur.error) THEN 1 ELSE 0)
          ELSE 0
    /\ (err # None /\ IsUnknownName(err)) =>
          \E k \in 1..Len(contrib) : contrib[k].error = err /\ Truthy(contrib[k].doc)

\* the hook returned null for the record with the unknown name; the invocation
\* ends with the empty result and recordErrorHook was never called
C38_Witness ==
    /\ pc = "done"
    /\ Has(options, "recordErrorHook")
    /\ Len(contrib) = 1
    /\ RecordOf(contrib[1]) = UnknownRecord
    /\ contrib[1].kind = "dropped"
    /\ contrib[1].doc = Null
    /\ RecordErrorHookCalls = <<>>
    /\ outcome = Resolved(EmptyResult)

----------------------------------------------------------------------------
(* afterHook failing after the dispatch *)

AfterHookFailed == \E k \in 1..Len(calls) : IsRejectedHook(calls[k], "afterHook")
ErrorHookFailed == \E k \in 1..Len(calls) : IsRejectedHook(calls[k], "errorHook")

Dispatched ==
    /\ BulkSettles # <<>>
    /\ BulkSettles[Len(BulkSettles)].how = "resolved"

\* C39: a failure of afterHook comes after the dispatch (resolved, or skipped
\* for an empty list) and is the batch error: errorHook is called with it when
\* configured, so both hooks run in one invocation, and it rejects the
\* invocation otherwise; errorHook is called at most once, and its own failure
\* rejects the invocation.
C39_AfterHookFailure ==
    /\ Len(ErrorHookCalls) <= 1
    /\ AfterHookFailed =>
          /\ Dispatched \/ (BulkCalls = <<>> /\ acc.actions = <<>>)
          /\ pc \in {"catch", "errorPending", "done"}
          /\ err = HookFailure("afterHook")
          /\ Len(AfterHookCalls) = 1
          /\ IF Has(options, "errorHook")
             THEN pc \in {"errorPending", "done"} =>
                    ErrorHookCalls = <<Call("errorHook",
                        [event |-> event, error |-> HookFailure("afterHook")])>>
             ELSE pc = "done" => outcome = Rejected(HookFailure("afterHook"))
    /\ ErrorHookFailed =>
          /\ pc = "done"
          /\ outcome = Rejected(HookFailure("errorHook"))
          /\ IsRejectedHook(LastCall, "errorHook")

\* the batch was written, afterHook failed, errorHook recovered
C39_Witness ==
    /\ pc = "done"
    /\ Dispatched
    /\ AfterHookFailed
    /\ Len(ErrorHookCalls) = 1
    /\ outcome = Resolved([hookResult |-> "recovered"])

----------------------------------------------------------------------------
(* Termination *)

Completed == pc = "done" /\ outcome.status \in {"resolved", "rejected"}

OnePass ==
    /\ \A k \in 1..Len(contrib) : contrib[k].record = k
    /\ contrib # <<>> => Len(contrib) <= Len(event.Records)
    /\ (pc = "done" /\ err = None) => Len(contrib) = Len(event.Records)
    /\ Len(BulkCalls) <= ConfiguredRetries + 1
    /\ Len(BulkCalls) = attempts
    /\ pc = "done" => outcome # Pending

\* C40: when every call settles, every invocation completes with a result or
\* a failure; each record is processed at most once and in order, all of them
\* when no error ends the pass, and the client is called at most retries + 1
\* times.
C40_Terminates == <>Completed /\ []OnePass

\* the client failed retries + 1 times and the invocation ended with its error
C40_Witness ==
    /\ Completed
    /\ ConfiguredRetries = MaxRetries
    /\ Len(BulkCalls) = MaxRetries + 1
    /\ outcome.status = "rejected"
    /\ Len(contrib) = Len(event.Records)

----------------------------------------------------------------------------
(* Concurrent invocations *)

\* what the k-th processed record of invocation s pushes, from the event of s
PushedAlone(s, k) ==
    LET c == s.contrib[k]
        record == s.event.Records[c.record]
        r == ResolveRecord(options, record)
    IN  IF c.kind = "emitted"
        THEN EmitRecord(record, r.parsedRecord, r.desc, c.doc)
        ELSE NothingPushed

RECURSIVE ListAlone(_, _, _)
ListAlone(s, k, field) ==
    IF k = 0 THEN <<>>
    ELSE ListAlone(s, k - 1, field) \o PushedAlone(s, k)[field]

BulkSettlesOf(s) == SelectSeq(s.calls, IsBulkSettle)

\* the state of invocation s is the one its own event and its own calls give
Alone(s) ==
    /\ \A k \in 1..Len(s.contrib) : s.contrib[k].record = k
    /\ s.acc.actions = ListAlone(s, Len(s.contrib), "actions")
    /\ s.acc.meta = ListAlone(s, Len(s.contrib), "meta")
    /\ \A j \in 1..Len(s.acc.meta) :
          \E k \in 1..Len(s.event.Records) :
              s.acc.meta[j].event = MergedRecord(s.event.Records[k])
    /\ \A k \in 1..Len(s.calls) :
          LET c == s.calls[k]
          IN  /\ Has(c, "event") => c.event = s.event
              /\ IsBulkCall(c) => c.args.body = s.acc.actions
              /\ IsHookCall(c, "afterHook") => c.meta = s.acc.meta
    /\ s.attempts = Len(SelectSeq(s.calls, IsBulkCall))
    /\ s.result # None =>
          /\ s.result.meta = s.acc.meta
          /\ s.result.result =
                IF BulkSettlesOf(s) = <<>> THEN EmptyResult
                ELSE BulkSettlesOf(s)[Len(BulkSettlesOf(s))].result
    /\ (s.pc = "done" /\ s.err = None /\ ~Has(options, "afterHook")) =>
          s.outcome = Resolved(s.result.result)
    /\ (s.pc = "done" /\ s.err # None /\ ~Has(options, "errorHook")) =>
          s.outcome = Rejected(s.err)

\* C31: of two invocations of one handler whose steps interleave at the
\* suspension points, each has the action list, the metadata list and the
\* result that its own event, hook answers and client answers give, and every
\* entry comes from a record of its own event.
C31_NoSharedState == other # None => Alone(Invocation) /\ Alone(other)

\* both invocations wait for the client at the same time, with different bodies
C31_Witness ==
    /\ other # None
    /\ pc = "bulkPending"
    /\ other.pc = "bulkPending"
    /\ event # other.event
    /\ Len(acc.actions) = 2
    /\ Len(other.acc.actions) = 1

====
